---- MODULE Spec2Model ----
(***************************************************************************)
(* vibe-tools: provider resolution / fallback selection                    *)
(* (src/utils/providerAvailability.ts) and the streaming execution         *)
(* contract of the commands (async generators, src/commands/...).          *)
(***************************************************************************)
EXTENDS Integers, Sequences, FiniteSets, TLC

VARIABLES
    env,        \* process.env: the set of credential variables that are set
    lastCall,   \* the most recent getNextAvailableProvider call and its outcome
    walk,       \* a caller's fallback walk over one preference list
    memo,       \* an earlier call and its outcome, kept by a caller for comparison
    inv,        \* the command invocations: generator, caller and what each has seen
    flake,      \* whether flake.nix exists in the working directory
    query       \* the most recent query of the registry, with the one before it

vars == <<env, lastCall, walk, memo, inv, flake, query>>

(***************************************************************************)
(* Provider registry                                                       *)
(***************************************************************************)

\* The credential variables read by getAllProviders.
EnvKeys ==
    { "PERPLEXITY_API_KEY", "GEMINI_API_KEY", "OPENAI_API_KEY", "ANTHROPIC_API_KEY",
      "OPENROUTER_API_KEY", "MODELBOX_API_KEY", "XAI_API_KEY", "APIZH_API_KEY" }

DEFAULT_MODELS ==
    [ perplexity |-> "sonar-pro",
      gemini |-> "gemini-2.5-pro",
      openai |-> "gpt-4.1",
      anthropic |-> "claude-sonnet-4-20250514",
      openrouter |-> "google/gemini-2.5-pro",
      modelbox |-> "google/gemini-2.5-pro",
      xai |-> "grok-3-latest",
      apizh |-> "gpt-4o-mini",
      apizh_coding |-> "o3",
      apizh_chinese |-> "qwen3-235b-a22b",
      apizh_analysis |-> "claude-sonnet-4-20250514",
      apizh_creative |-> "claude-opus-4-20250514",
      apizh_math |-> "o1",
      apizh_web |-> "gemini-2.5-pro-exp-03-25",
      apizh_reasoning |-> "o1-mini",
      apizh_cost |-> "gpt-4o-mini",
      apizh_nix |-> "gpt-4.1-2025-04-14" ]

\* Provider identifiers are written with '_' for the source's '-'.
Providers == DOMAIN DEFAULT_MODELS

\* The variable is looked up in the environment the previous query saw.
IsSetCached(e, key) == key \in (IF query.fn # "none" THEN query.at ELSE e)

\* !!process.env.X
IsSet(e, key) == key \in e

\* The entry of xai is registered under the name of its model family.
ProviderInfoMisnamed(p, avail) ==
    [provider |-> IF p = "xai" THEN "grok" ELSE p, available |-> avail,
     defaultModel |-> DEFAULT_MODELS[p]]

\* Every entry is given the default model of the base provider apizh.
ProviderInfoBaseModel(p, avail) ==
    [provider |-> p, available |-> avail, defaultModel |-> DEFAULT_MODELS["apizh"]]

ProviderInfo(p, avail) ==
    [provider |-> p, available |-> avail, defaultModel |-> DEFAULT_MODELS[p]]

getAllProviders(e) ==
    LET isApizhAvailable == IsSet(e, "APIZH_API_KEY") IN
    << ProviderInfo("perplexity", IsSet(e, "PERPLEXITY_API_KEY")),
       ProviderInfo("gemini", IsSet(e, "GEMINI_API_KEY")),
       ProviderInfo("openai", IsSet(e, "OPENAI_API_KEY")),
       ProviderInfo("anthropic", IsSet(e, "ANTHROPIC_API_KEY")),
       ProviderInfo("openrouter", IsSet(e, "OPENROUTER_API_KEY")),
       ProviderInfo("modelbox", IsSet(e, "MODELBOX_API_KEY")),
       ProviderInfo("xai", IsSet(e, "XAI_API_KEY")),
       ProviderInfo("apizh", isApizhAvailable),
       ProviderInfo("apizh_coding", isApizhAvailable),
       ProviderInfo("apizh_chinese", isApizhAvailable),
       ProviderInfo("apizh_analysis", isApizhAvailable),
       ProviderInfo("apizh_creative", isApizhAvailable),
       ProviderInfo("apizh_math", isApizhAvailable),
       ProviderInfo("apizh_web", isApizhAvailable),
       ProviderInfo("apizh_reasoning", isApizhAvailable),
       ProviderInfo("apizh_cost", isApizhAvailable),
       ProviderInfo("apizh_nix", isApizhAvailable) >>

\* Array.prototype.find: the first element whose provider is p, or undefined.
NoInfo == [provider |-> "undefined", available |-> FALSE, defaultModel |-> "undefined"]

RECURSIVE FindFrom(_, _, _)
FindFrom(infos, p, k) ==
    IF k > Len(infos) THEN NoInfo
    ELSE IF infos[k].provider = p THEN infos[k]
    ELSE FindFrom(infos, p, k + 1)

\* A search without a match gives the first entry.
FindOrFirst(infos, p) ==
    IF FindFrom(infos, p, 1) = NoInfo THEN infos[1] ELSE FindFrom(infos, p, 1)

Find(infos, p) == FindFrom(infos, p, 1)

\* getAllProviders().find((p) => p.provider === provider)
\* Every name is taken to be a provider that is available.
getProviderInfoOptimistic(provider, e) ==
    [provider |-> provider, available |-> TRUE, defaultModel |-> "gpt-4o-mini"]

getProviderInfo(provider, e) == Find(getAllProviders(e), provider)

\* Any provider with an entry counts as available.
isProviderAvailableListed(provider, e) == getProviderInfo(provider, e) # NoInfo

\* !!getProviderInfo(provider)?.available
isProviderAvailable(provider, e) == getProviderInfo(provider, e).available

\* getAllProviders().filter((p) => p.available)
getAvailableProviders(e) == SelectSeq(getAllProviders(e), LAMBDA p : p.available)

(***************************************************************************)
(* Preference table                                                        *)
(***************************************************************************)

PROVIDER_PREFERENCE ==
    [ web |-> << "apizh_web", "perplexity", "gemini", "modelbox", "openrouter", "apizh" >>,
      repo |-> << "apizh_analysis", "gemini", "modelbox", "openrouter", "openai",
                  "perplexity", "anthropic", "xai", "apizh" >>,
      plan_file |-> << "apizh_cost", "gemini", "modelbox", "openrouter", "openai",
                       "perplexity", "anthropic", "xai", "apizh" >>,
      plan_thinking |-> << "apizh_reasoning", "openai", "modelbox", "openrouter", "gemini",
                           "anthropic", "perplexity", "xai", "apizh" >>,
      doc |-> << "apizh_analysis", "gemini", "modelbox", "openrouter", "openai",
                 "perplexity", "anthropic", "xai", "apizh" >>,
      ask |-> << "apizh_cost", "openai", "modelbox", "openrouter", "gemini",
                 "anthropic", "perplexity", "apizh" >>,
      browser |-> << "apizh_analysis", "anthropic", "openai", "modelbox", "openrouter",
                     "gemini", "perplexity", "apizh" >> ]

\* The command types that have a registered preference list.
RegisteredTypes == DOMAIN PROVIDER_PREFERENCE

\* Names every object literal inherits from Object.prototype, with the length
\* property of the inherited member (the function Object has length 1).
InheritedLength == [constructor |-> 1]

\* Identifiers with no registered preference list.
UnregisteredTypes == {"nonexistent"} \cup DOMAIN InheritedLength

CommandTypeIds == RegisteredTypes \cup UnregisteredTypes

\* An omitted currentProvider argument.
Omitted == "<undefined>"

\* Values passed as currentProvider: omitted, the empty string, every known
\* provider, and a string that names no provider.
CurrentProviderArgs == {Omitted, "", "bogus"} \cup Providers

\* PROVIDER_PREFERENCE[commandType]: an own property is its array, an inherited
\* name is the inherited function (indexed elements undefined), else undefined.
PreferenceLookup(t) ==
    IF t \in RegisteredTypes
    THEN [kind |-> "array", length |-> Len(PROVIDER_PREFERENCE[t]),
          items |-> PROVIDER_PREFERENCE[t]]
    ELSE IF t \in DOMAIN InheritedLength
    THEN [kind |-> "function", length |-> InheritedLength[t], items |-> << >>]
    ELSE [kind |-> "undefined", length |-> 0, items |-> << >>]

\* DEFAULT_MODELS[provider]: the registered model, a property inherited from
\* Object.prototype, or undefined; the lookup never throws.
getDefaultModel(provider) ==
    IF provider \in Providers
    THEN [kind |-> "string", value |-> DEFAULT_MODELS[provider]]
    ELSE IF provider \in DOMAIN InheritedLength
    THEN [kind |-> "function", value |-> provider]
    ELSE [kind |-> "undefined", value |-> "undefined"]

\* JavaScript truthiness of the values used here.
Truthy(v) == v \notin {Omitted, ""}

\* preferenceOrder[i], indices from 0; undefined where there is no element.
ItemAt(items, i) == IF i + 1 \in DOMAIN items THEN items[i + 1] ELSE "undefined"

\* Array.prototype.indexOf: the index (from 0) of the first occurrence, or -1.
RECURSIVE IndexOfFrom(_, _, _)
IndexOfFrom(items, x, i) ==
    IF i >= Len(items) THEN -1
    ELSE IF ItemAt(items, i) = x THEN i
    ELSE IndexOfFrom(items, x, i + 1)

IndexOf(items, x) == IndexOfFrom(items, x, 0)

(***************************************************************************)
(* Fallback selector                                                       *)
(***************************************************************************)

\* The outcome of a call: a provider, absent (undefined) or a thrown error;
\* notes are the console.log diagnostics in order, lookups counts the calls
\* of getAllProviders.
Returned(p, notes) ==
    [kind |-> "provider", value |-> p, notes |-> notes, lookups |-> 1]

Absent(notes) ==
    [kind |-> "absent", value |-> "undefined", notes |-> notes, lookups |-> 1]

Thrown(err, lookups) ==
    [kind |-> "throw", value |-> err, notes |-> << >>, lookups |-> lookups]

StartIndexFromOne(items, c) == IF Truthy(c) THEN IndexOf(items, c) + 1 ELSE 1

StartIndexAtCurrent(items, c) == IF Truthy(c) THEN IndexOf(items, c) ELSE 0

\* A selector that keeps a cursor: it resumes after the provider it returned before.
StartIndexSticky(items, c) ==
    IF memo.result.kind = "provider" /\ IndexOf(items, memo.result.value) >= 0
    THEN IndexOf(items, memo.result.value) + 1
    ELSE IF Truthy(c) THEN IndexOf(items, c) + 1 ELSE 0

StartIndexSkipsOne(items, c) == IF Truthy(c) THEN IndexOf(items, c) + 2 ELSE 0

StartIndexPastEnd(items, c) ==
    IF ~Truthy(c) THEN 0
    ELSE IF IndexOf(items, c) = -1 THEN Len(items)
    ELSE IndexOf(items, c) + 1

\* const startIndex = currentProvider ? preferenceOrder.indexOf(currentProvider) + 1 : 0
StartIndex(items, c) == IF Truthy(c) THEN IndexOf(items, c) + 1 ELSE 0

\* A scan that throws, instead of returning undefined, when the list is exhausted.
\* The scan keeps only the note of the candidate it skipped last.
RECURSIVE ScanKeepsLastNote(_, _, _, _)
ScanKeepsLastNote(pref, infos, i, notes) ==
    IF i >= pref.length THEN Absent(notes)
    ELSE LET provider == ItemAt(pref.items, i)
             providerInfo == Find(infos, provider)
         IN IF providerInfo.available
            THEN Returned(provider, notes)
            ELSE ScanKeepsLastNote(pref, infos, i + 1, << provider >>)

RECURSIVE ScanOrThrow(_, _, _, _)
\* The scan returns the first listed provider without looking at its flag.
ScanIgnoresAvailability(pref, infos, i, notes) ==
    IF i >= pref.length THEN Absent(notes) ELSE Returned(ItemAt(pref.items, i), notes)

ScanOrThrow(pref, infos, i, notes) ==
    IF i >= pref.length THEN Thrown("Error: No available provider", 1)
    ELSE LET provider == ItemAt(pref.items, i)
             providerInfo == Find(infos, provider)
         IN IF providerInfo.available
            THEN Returned(provider, notes)
            ELSE ScanOrThrow(pref, infos, i + 1, Append(notes, provider))

\* for (let i = startIndex; i < preferenceOrder.length; i++) { ... } return undefined
RECURSIVE ScanFrom(_, _, _, _)
ScanFrom(pref, infos, i, notes) ==
    IF i >= pref.length THEN Absent(notes)
    ELSE LET provider == ItemAt(pref.items, i)
             providerInfo == Find(infos, provider)
         IN IF providerInfo.available
            THEN Returned(provider, notes)
            ELSE ScanFrom(pref, infos, i + 1, Append(notes, provider))

getNextAvailableProvider(t, c, e) ==
    LET preferenceOrder == PreferenceLookup(t) IN
    IF preferenceOrder.kind = "undefined"
    THEN Thrown("Error: Unknown command type", 0)
    ELSE LET availableProviders == getAllProviders(e) IN
         IF Truthy(c) /\ preferenceOrder.kind # "array"
         THEN Thrown("TypeError: preferenceOrder.indexOf is not a function", 1)
         ELSE ScanFrom(preferenceOrder, availableProviders,
                       StartIndex(preferenceOrder.items, c), << >>)

(***************************************************************************)
(* Command invocations (CommandGenerator)                                  *)
(***************************************************************************)

\* The invocations that can be in progress at once.
MaxInvocations == 2

Invocations == 1..MaxInvocations

\* What the message of an error tells of providers: the one it names, and
\* the providers it lists when it has a list.
NoMessage == [named |-> Omitted, lists |-> FALSE, listed |-> << >>]

NoError == [type |-> "none", cause |-> "none", message |-> NoMessage]

\* A chunk: its text, and for the chunks of an external producer their number.
Chunk(text, n) == [text |-> text, n |-> n]

NoChunk == Chunk("none", 0)

NoOutput == [kind |-> "none", value |-> NoChunk, error |-> NoError]

\* query and CommandOptions, and what the process finds around it when the
\* command starts (CI detection, SKIP_SETUP, an existing configuration).
NoOptions ==
    [queryEmpty |-> FALSE, json |-> FALSE, provider |-> Omitted,
     configProvider |-> Omitted, model |-> FALSE, withDoc |-> FALSE,
     nonInteractive |-> FALSE, skipSetup |-> FALSE, existingConfig |-> FALSE,
     action |-> "", mentions |-> ""]

\* The local variables of the bodies.
NoLocals ==
    [hasNix |-> FALSE, hasFlake |-> FALSE, hasGit |-> FALSE,
     message |-> NoChunk, err |-> NoError, key |-> FALSE,
     more |-> FALSE, count |-> 0, valid |-> FALSE,
     stdout |-> FALSE, stderr |-> FALSE, success |-> FALSE, flakeTracked |-> FALSE]

\* An invocation that has not been made: no generator object exists.
\* stack: the suspended frames, the outermost first; requested: next() is
\* pending; out: what the pending next() was answered with; received,
\* terminal, error: what the caller has observed; yielded, ops, raised: the
\* chunks yielded, the external operations started and the last error
\* raised, as they happened.
IdleInvocation ==
    [cmd |-> "none", opts |-> NoOptions, stack |-> << >>, loc |-> NoLocals,
     requested |-> FALSE, out |-> NoOutput,
     received |-> << >>, terminal |-> "none", error |-> NoError, abandoned |-> FALSE,
     yielded |-> << >>, ops |-> << >>, raised |-> NoError]

(***************************************************************************)
(* State machine of the selector                                           *)
(***************************************************************************)

NoCall ==
    [commandType |-> "none", currentProvider |-> Omitted, result |-> Thrown("none", 0)]

\* No query of the registry has been made.  fn: the function called; id,
\* commandType, currentProvider: its argument; at: process.env at the call;
\* list, info, flag, next: what it returned; prevAt, prevList: process.env at
\* the getAllProviders call before this one and what that call returned.
NoQuery ==
    [fn |-> "none", id |-> "none", commandType |-> "none", currentProvider |-> Omitted,
     at |-> {}, list |-> << >>, info |-> NoInfo, flag |-> FALSE,
     next |-> Thrown("none", 0), prevAt |-> {}, prevList |-> << >>,
     model |-> [kind |-> "none", value |-> "none"]]

WalkIdle ==
    [phase |-> "idle", commandType |-> "none", tried |-> << >>, calls |-> 0]

\* A credential variable is set or unset between calls. The recorded outcome
\* belongs to the environment of its call and is dropped with it, and a walk in
\* progress no longer runs in a fixed environment and is dropped too.
SetEnv(k) ==
    /\ k \notin env
    /\ env' = env \cup {k}
    /\ lastCall' = NoCall
    /\ walk' = WalkIdle
    /\ memo' = NoCall
    /\ UNCHANGED <<inv, flake, query>>

UnsetEnv(k) ==
    /\ k \in env
    /\ env' = env \ {k}
    /\ lastCall' = NoCall
    /\ walk' = WalkIdle
    /\ memo' = NoCall
    /\ UNCHANGED <<inv, flake, query>>

\* A caller invokes getNextAvailableProvider(t, c) in the current environment.
\* Calls are synchronous: the caller takes the outcome of one before the next.
CallGetNext(t, c) ==
    /\ lastCall = NoCall
    /\ lastCall' = [commandType |-> t, currentProvider |-> c,
                    result |-> getNextAvailableProvider(t, c, env)]
    /\ UNCHANGED <<env, walk, memo, inv, flake, query>>

\* The caller has taken the outcome of the last call.
TakeResult ==
    /\ lastCall # NoCall
    /\ lastCall' = NoCall
    /\ UNCHANGED <<env, walk, memo, inv, flake, query>>

Init ==
    /\ env \in SUBSET EnvKeys
    /\ lastCall = NoCall
    /\ walk = WalkIdle
    /\ memo = NoCall
    /\ inv = [i \in Invocations |-> IdleInvocation]
    /\ flake = FALSE
    /\ query = NoQuery

Next ==
    \/ \E k \in EnvKeys : SetEnv(k)
    \/ \E k \in EnvKeys : UnsetEnv(k)
    \/ \E t \in CommandTypeIds, c \in CurrentProviderArgs : CallGetNext(t, c)
    \/ TakeResult

Spec == Init /\ [][Next]_vars

(***************************************************************************)
(* Properties of the fallback selector                                     *)
(***************************************************************************)

\* The preference list of the last call, when its command type is registered.
CallList == PROVIDER_PREFERENCE[lastCall.commandType]

CallRegistered == lastCall.commandType \in RegisteredTypes

\* The indices (from 0) of the available entries of a list.
AvailableIndices(list, e) ==
    {i \in 0..(Len(list) - 1) : isProviderAvailable(ItemAt(list, i), e)}

\* C1: with at least one listed provider available, a call without
\* currentProvider returns the available provider of smallest index: it is
\* available and nothing before it in the list is.
C1_MostPreferredAvailable ==
    (/\ CallRegistered
     /\ lastCall.currentProvider = Omitted
     /\ AvailableIndices(CallList, env) # {})
    => /\ lastCall.result.kind = "provider"
       /\ \E j \in AvailableIndices(CallList, env) :
            /\ ItemAt(CallList, j) = lastCall.result.value
            /\ \A i \in AvailableIndices(CallList, env) : j <= i

\* A call without currentProvider that skipped at least one unavailable entry.
C1_Witness ==
    /\ CallRegistered
    /\ lastCall.currentProvider = Omitted
    /\ lastCall.result.kind = "provider"
    /\ IndexOf(CallList, lastCall.result.value) >= 2

\* C2: when currentProvider is listed at index i, the result is absent or a
\* provider at an index > i; never currentProvider, never an earlier entry.
C2_OnlyLaterIndices ==
    (/\ CallRegistered
     /\ IndexOf(CallList, lastCall.currentProvider) >= 0)
    => \/ lastCall.result.kind = "absent"
       \/ /\ lastCall.result.kind = "provider"
          /\ IndexOf(CallList, lastCall.result.value)
               > IndexOf(CallList, lastCall.currentProvider)

\* currentProvider and an earlier entry are available, and a later one is returned.
C2_Witness ==
    /\ CallRegistered
    /\ IndexOf(CallList, lastCall.currentProvider) >= 1
    /\ isProviderAvailable(lastCall.currentProvider, env)
    /\ isProviderAvailable(ItemAt(CallList, 0), env)
    /\ lastCall.result.kind = "provider"
    /\ IndexOf(CallList, lastCall.result.value)
         > IndexOf(CallList, lastCall.currentProvider)

\* C3: when no listed provider is available, every call for that command type
\* returns absent and throws nothing, whatever currentProvider is.
C3_NoneAvailableAbsent ==
    (/\ CallRegistered
     /\ AvailableIndices(CallList, env) = {})
    => lastCall.result.kind = "absent"

\* None available, called with a listed currentProvider while other
\* credentials are set.
C3_Witness ==
    /\ CallRegistered
    /\ AvailableIndices(CallList, env) = {}
    /\ env # {}
    /\ IndexOf(CallList, lastCall.currentProvider) >= 0
    /\ lastCall.result.kind = "absent"

\* C4: every identifier without a registered preference list makes the call
\* throw the unknown-command-type error before any availability lookup.
C4_UnknownTypeThrows ==
    lastCall.commandType \in UnregisteredTypes
    => /\ lastCall.result.kind = "throw"
       /\ lastCall.result.value = "Error: Unknown command type"
       /\ lastCall.result.lookups = 0

\* C5: a supplied currentProvider that is not in the list gives the result of
\* the call with currentProvider omitted (the scan starts at index 0).
C5_UnlistedScansFromStart ==
    (/\ CallRegistered
     /\ Truthy(lastCall.currentProvider)
     /\ IndexOf(CallList, lastCall.currentProvider) = -1)
    => LET omitted == getNextAvailableProvider(lastCall.commandType, Omitted, env) IN
       /\ lastCall.result.kind = omitted.kind
       /\ lastCall.result.value = omitted.value
       /\ (AvailableIndices(CallList, env) # {} => lastCall.result.kind = "provider")

\* A known provider that is not in the list was passed, and a provider came back.
C5_Witness ==
    /\ CallRegistered
    /\ lastCall.currentProvider \in Providers
    /\ IndexOf(CallList, lastCall.currentProvider) = -1
    /\ lastCall.result.kind = "provider"

(***************************************************************************)
(* Fallback walk of a calling command                                      *)
(***************************************************************************)

\* The walk after a selector call made with the providers tried so far.
WalkAfter(t, tried, calls, result) ==
    IF result.kind = "provider"
    THEN [phase |-> "trying", commandType |-> t,
          tried |-> Append(tried, result.value), calls |-> calls + 1]
    ELSE [phase |-> "exhausted", commandType |-> t, tried |-> tried, calls |-> calls + 1]

\* The command asks for its first provider: getNextAvailableProvider(t).
WalkStart(t) ==
    /\ walk.phase = "idle"
    /\ walk' = WalkAfter(t, << >>, 0, getNextAvailableProvider(t, Omitted, env))
    /\ UNCHANGED <<env, lastCall, memo, inv, flake, query>>

\* The provider being tried fails; the command asks for the next one with
\* currentProvider set to the failed one.
WalkFail ==
    /\ walk.phase = "trying"
    /\ walk' = WalkAfter(walk.commandType, walk.tried, walk.calls,
                         getNextAvailableProvider(walk.commandType,
                                                  walk.tried[Len(walk.tried)], env))
    /\ UNCHANGED <<env, lastCall, memo, inv, flake, query>>

\* The provider being tried answers; the walk ends without further calls.
WalkSucceed ==
    /\ walk.phase = "trying"
    /\ walk' = [walk EXCEPT !.phase = "succeeded"]
    /\ UNCHANGED <<env, lastCall, memo, inv, flake, query>>

\* The invocation is over; the selection cursor is not kept.
WalkEnd ==
    /\ walk.phase \in {"exhausted", "succeeded"}
    /\ walk' = WalkIdle
    /\ UNCHANGED <<env, lastCall, memo, inv, flake, query>>

NextWalk ==
    \/ \E k \in EnvKeys : SetEnv(k)
    \/ \E k \in EnvKeys : UnsetEnv(k)
    \/ \E t \in RegisteredTypes : WalkStart(t)
    \/ WalkFail
    \/ WalkSucceed
    \/ WalkEnd

SpecWalk == Init /\ [][NextWalk]_vars

\* The available entries of a list, in preference order.
AvailableInOrder(list, e) == SelectSeq(list, LAMBDA p : isProviderAvailable(p, e))

\* C6: in a fixed environment the walk returns the available providers of the
\* list, each once and in preference order, then absent; absent comes after
\* at most length(list) + 1 calls.
C6_WalkExhaustsList ==
    walk.phase # "idle"
    => LET list == PROVIDER_PREFERENCE[walk.commandType]
           avail == AvailableInOrder(list, env)
       IN /\ Len(walk.tried) <= Len(avail)
          /\ walk.tried = SubSeq(avail, 1, Len(walk.tried))
          /\ \A i, j \in DOMAIN walk.tried : i # j => walk.tried[i] # walk.tried[j]
          /\ walk.calls <= Len(list) + 1
          /\ walk.phase = "exhausted"
               => /\ walk.tried = avail
                  /\ walk.calls = Len(avail) + 1

\* A walk that tried three providers, skipped unavailable ones and ran out.
C6_Witness ==
    /\ walk.phase = "exhausted"
    /\ Len(walk.tried) = 3
    /\ ~isProviderAvailable(PROVIDER_PREFERENCE[walk.commandType][1], env)
    /\ walk.calls = 4

(***************************************************************************)
(* Repeated selection in one environment                                   *)
(***************************************************************************)

\* The currentProvider arguments of the calls that are compared.
RepeatArgs == {Omitted, "", "openai", "gemini", "apizh", "bogus"}

\* The caller keeps the outcome of a call to compare a later one with it.
Remember ==
    /\ lastCall # NoCall
    /\ memo = NoCall
    /\ memo' = lastCall
    /\ lastCall' = NoCall
    /\ UNCHANGED <<env, walk, inv, flake, query>>

\* The kept outcome is dropped.
Forget ==
    /\ memo # NoCall
    /\ memo' = NoCall
    /\ UNCHANGED <<env, lastCall, walk, inv, flake, query>>

NextRepeat ==
    \/ \E t \in CommandTypeIds, c \in RepeatArgs : CallGetNext(t, c)
    \/ TakeResult
    \/ Remember
    \/ Forget

SpecRepeat == Init /\ [][NextRepeat]_vars

Yield(text, next) == [kind |-> "yield", arg |-> text, next |-> next, alt |-> "none"]

Await(op, next) == [kind |-> "await", arg |-> op, next |-> next, alt |-> "none"]

If(cond, next, alt) == [kind |-> "if", arg |-> cond, next |-> next, alt |-> alt]

Return == [kind |-> "return", arg |-> "none", next |-> "none", alt |-> "none"]

Throw(what) == [kind |-> "throw", arg |-> what, next |-> "none", alt |-> "none"]

YieldStar(gen, next) == [kind |-> "yield*", arg |-> gen, next |-> next, alt |-> "none"]

ForAwait(gen, body, after) == [kind |-> "forawait", arg |-> gen, next |-> body, alt |-> after]

YieldMessage(loop) == [kind |-> "reyield", arg |-> "message", next |-> loop, alt |-> "none"]

\* A chunk of a producer whose text is not known: numbered as it comes.
YieldNth(text, next) == [kind |-> "yieldnth", arg |-> text, next |-> next, alt |-> "none"]

\* AssistCommand.execute
AssistBody ==
    [ L9 |-> If("queryEmpty", "L10", "L23"),
      L10 |-> Yield("assist:help", "L20"),
      L20 |-> Return,
      L23 |-> Await("detectEnvironment", "L25"),
      L25 |-> Yield("assist:starting", "L26"),
      L26 |-> Yield("assist:environment", "L37"),
      L37 |-> If("hasFlake", "L39", "L48"),
      L39 |-> Await("readFlakeFile", "L48"),
      L48 |-> Await("execAsync", "L77"),
      L77 |-> Await("loadConfig", "L80"),
      L80 |-> Await("createProvider", "L94"),
      L94 |-> Yield("assist:model", "L96"),
      L96 |-> Await("executePrompt", "L102"),
      L102 |-> Yield("assist:reply", "L104"),
      L104 |-> Yield("assist:more", "L116"),
      L110 |-> Yield("assist:error", "L112"),
      L112 |-> Return,
      L116 |-> Return ]

\* The call of the provider is outside the try block.
AssistHandlersUncaught ==
    [ L9 |-> "L110", L10 |-> "L110", L20 |-> "L110", L23 |-> "L110", L25 |-> "L110",
      L26 |-> "L110", L37 |-> "L110", L39 |-> "L48", L48 |-> "L77", L77 |-> "L110",
      L80 |-> "L110", L94 |-> "L110", L96 |-> "none", L102 |-> "L110", L104 |-> "L110",
      L110 |-> "none", L112 |-> "none", L116 |-> "none" ]

\* The catch clause that takes an error raised at each label ("none": the
\* error leaves the generator).  readFlakeFile and execAsync have catch
\* clauses of their own, after which the body goes on.
AssistHandlers ==
    [ L9 |-> "L110", L10 |-> "L110", L20 |-> "L110", L23 |-> "L110", L25 |-> "L110",
      L26 |-> "L110", L37 |-> "L110", L39 |-> "L48", L48 |-> "L77", L77 |-> "L110",
      L80 |-> "L110", L94 |-> "L110", L96 |-> "L110", L102 |-> "L110", L104 |-> "L110",
      L110 |-> "none", L112 |-> "none", L116 |-> "none" ]

\* NixCommand.execute
NixBody ==
    [ L13 |-> Await("loadEnv", "L15"),
      L15 |-> If("queryEmpty", "L16", "L22"),
      L16 |-> Yield("nix:help", "L17"),
      L17 |-> Return,
      L22 |-> YieldStar("assist", "L27"),
      L25 |-> Throw("error"),
      L27 |-> Return ]

NixHandlers ==
    [ L13 |-> "none", L15 |-> "none", L16 |-> "none", L17 |-> "none",
      L22 |-> "L25", L25 |-> "none", L27 |-> "none" ]

\* InitCommand.execute
InitBody ==
    [ L8 |-> Await("detectEnvironment", "L10"),
      L10 |-> If("hasNix", "L17", "L11"),
      L11 |-> Yield("init:help", "L12"),
      L12 |-> Return,
      L17 |-> Yield("init:generating", "L20"),
      L20 |-> If("hasFlake", "L21", "L43"),
      L21 |-> Yield("init:exists", "L27"),
      L27 |-> Return,
      L43 |-> Await("createProvider", "L45"),
      L45 |-> Await("executePrompt", "L55"),
      L55 |-> Await("writeFlakeFile", "L58"),
      L58 |-> Await("detectGitStatus", "L60"),
      L60 |-> Yield("init:generated", "L70"),
      L70 |-> If("hasGit", "L71", "L76"),
      L71 |-> Yield("init:steps-git", "L83"),
      L76 |-> Yield("init:steps-nogit", "L83"),
      L83 |-> Yield("init:tips", "L97"),
      L91 |-> Yield("init:error", "L93"),
      L93 |-> Return,
      L97 |-> Return ]

InitHandlers ==
    [ L8 |-> "L91", L10 |-> "L91", L11 |-> "L91", L12 |-> "L91", L17 |-> "L91",
      L20 |-> "L91", L21 |-> "L91", L27 |-> "L91", L43 |-> "L91", L45 |-> "L91",
      L55 |-> "L91", L58 |-> "L91", L60 |-> "L91", L70 |-> "L91", L71 |-> "L91",
      L76 |-> "L91", L83 |-> "L91", L91 |-> "none", L93 |-> "none", L97 |-> "none" ]

\* TroubleshootCommand.execute
TroubleshootBody ==
    [ L125 |-> Yield("troubleshoot:start", "L127"),
      L127 |-> Await("detectEnvironment", "L130"),
      L130 |-> Yield("troubleshoot:report", "L131"),
      L131 |-> Yield("troubleshoot:nix", "L132"),
      L132 |-> Yield("troubleshoot:version", "L133"),
      L133 |-> Yield("troubleshoot:flake", "L134"),
      L134 |-> Yield("troubleshoot:project", "L137"),
      L137 |-> If("queryEmpty", "L179", "L138"),
      L138 |-> Yield("troubleshoot:ai", "L145"),
      L145 |-> If("hasFlake", "L147", "L168"),
      L147 |-> Await("readFlakeFile", "L168"),
      L168 |-> Await("createProvider", "L170"),
      L170 |-> Await("executePrompt", "L176"),
      L176 |-> Yield("troubleshoot:diagnosis", "L226"),
      L179 |-> Yield("troubleshoot:general", "L191"),
      L191 |-> If("hasFlake", "L193", "L202"),
      L193 |-> Await("validateFlake", "L202"),
      L202 |-> If("noIssues", "L203", "L208"),
      L203 |-> Yield("troubleshoot:fine", "L226"),
      L208 |-> Yield("troubleshoot:issues", "L210"),
      L210 |-> If("hasNix", "L214", "L211"),
      L211 |-> Yield("troubleshoot:install-nix", "L214"),
      L214 |-> If("hasFlake", "L226", "L215"),
      L215 |-> Yield("troubleshoot:init-flake", "L226"),
      L220 |-> Yield("troubleshoot:error", "L222"),
      L222 |-> Return,
      L226 |-> Return ]

TroubleshootHandlers ==
    [ L125 |-> "L220", L127 |-> "L220", L130 |-> "L220", L131 |-> "L220",
      L132 |-> "L220", L133 |-> "L220", L134 |-> "L220", L137 |-> "L220",
      L138 |-> "L220", L145 |-> "L220", L147 |-> "L168", L168 |-> "L220",
      L170 |-> "L220", L176 |-> "L220", L179 |-> "L220", L191 |-> "L220",
      L193 |-> "L202", L202 |-> "L220", L203 |-> "L220", L208 |-> "L220",
      L210 |-> "L220", L211 |-> "L220", L214 |-> "L220", L215 |-> "L220",
      L220 |-> "none", L222 |-> "none", L226 |-> "none" ]

\* BuildCommand.execute
BuildBody ==
    [ L8 |-> Await("detectEnvironment", "L10"),
      L10 |-> If("hasNix", "L15", "L11"),
      L11 |-> Yield("build:help", "L12"),
      L12 |-> Return,
      L15 |-> If("hasFlake", "L20", "L16"),
      L16 |-> Yield("build:help", "L17"),
      L17 |-> Return,
      L20 |-> Yield("build:starting", "L30"),
      L30 |-> Await("executeNixCommand", "L32"),
      L32 |-> If("stdout", "L33", "L36"),
      L33 |-> Yield("build:stdout", "L36"),
      L36 |-> If("stderr", "L37", "L40"),
      L37 |-> Yield("build:stderr", "L40"),
      L40 |-> Yield("build:done", "L53"),
      L47 |-> Yield("build:error", "L49"),
      L49 |-> Return,
      L53 |-> Return ]

\* RunCommand.execute
RunBody ==
    [ L8 |-> Await("detectEnvironment", "L10"),
      L10 |-> If("hasNix", "L15", "L11"),
      L11 |-> Yield("run:help", "L12"),
      L12 |-> Return,
      L15 |-> If("hasFlake", "L20", "L16"),
      L16 |-> Yield("run:help", "L17"),
      L17 |-> Return,
      L20 |-> Yield("run:starting", "L30"),
      L30 |-> Await("executeNixCommand", "L32"),
      L32 |-> If("stdout", "L33", "L36"),
      L33 |-> Yield("run:stdout", "L36"),
      L36 |-> If("stderr", "L37", "L40"),
      L37 |-> Yield("run:stderr", "L40"),
      L40 |-> Yield("run:done", "L48"),
      L42 |-> Yield("run:error", "L44"),
      L44 |-> Return,
      L48 |-> Return ]

\* UpdateCommand.execute
UpdateBody ==
    [ L8 |-> Await("detectEnvironment", "L10"),
      L10 |-> If("hasNix", "L15", "L11"),
      L11 |-> Yield("update:help", "L12"),
      L12 |-> Return,
      L15 |-> If("hasFlake", "L20", "L16"),
      L16 |-> Yield("update:help", "L17"),
      L17 |-> Return,
      L20 |-> Yield("update:starting", "L30"),
      L30 |-> Await("executeNixCommand", "L32"),
      L32 |-> If("stdout", "L33", "L36"),
      L33 |-> Yield("update:stdout", "L36"),
      L36 |-> If("stderr", "L37", "L40"),
      L37 |-> Yield("update:stderr", "L40"),
      L40 |-> Yield("update:done", "L59"),
      L48 |-> Yield("update:error", "L55"),
      L55 |-> Return,
      L59 |-> Return ]

\* FmtCommand.execute
FmtBody ==
    [ L8 |-> Await("detectEnvironment", "L10"),
      L10 |-> If("hasNix", "L15", "L11"),
      L11 |-> Yield("fmt:help", "L12"),
      L12 |-> Return,
      L15 |-> If("hasFlake", "L20", "L16"),
      L16 |-> Yield("fmt:help", "L17"),
      L17 |-> Return,
      L20 |-> Yield("fmt:starting", "L23"),
      L23 |-> Await("executeNixCommand", "L25"),
      L25 |-> If("stdout", "L26", "L29"),
      L26 |-> Yield("fmt:stdout", "L29"),
      L29 |-> If("stderr", "L30", "L33"),
      L30 |-> Yield("fmt:stderr", "L33"),
      L33 |-> Yield("fmt:done", "L50"),
      L39 |-> Yield("fmt:error", "L46"),
      L46 |-> Return,
      L50 |-> Return ]

\* CheckCommand.execute
CheckBody ==
    [ L8 |-> Await("detectEnvironment", "L10"),
      L10 |-> If("hasNix", "L15", "L11"),
      L11 |-> Yield("check:help", "L12"),
      L12 |-> Return,
      L15 |-> If("hasFlake", "L20", "L16"),
      L16 |-> Yield("check:help", "L17"),
      L17 |-> Return,
      L20 |-> Yield("check:starting", "L23"),
      L23 |-> Await("executeNixCommand", "L25"),
      L25 |-> If("stdout", "L26", "L29"),
      L26 |-> Yield("check:stdout", "L29"),
      L29 |-> If("stderr", "L30", "L33"),
      L30 |-> Yield("check:stderr", "L33"),
      L33 |-> Yield("check:done", "L50"),
      L39 |-> Yield("check:error", "L46"),
      L46 |-> Return,
      L50 |-> Return ]

\* DevelopCommand.execute
DevelopBody ==
    [ L293 |-> Await("detectEnvironment", "L295"),
      L295 |-> If("hasNix", "L300", "L296"),
      L296 |-> Yield("develop:help", "L297"),
      L297 |-> Return,
      L300 |-> If("hasFlake", "L305", "L301"),
      L301 |-> Yield("develop:help", "L302"),
      L302 |-> Return,
      L305 |-> Yield("develop:starting", "L308"),
      L308 |-> Await("executeNixCommand", "L310"),
      L310 |-> If("stdout", "L311", "L314"),
      L311 |-> Yield("develop:stdout", "L314"),
      L314 |-> If("stderr", "L315", "L318"),
      L315 |-> Yield("develop:stderr", "L318"),
      L318 |-> Yield("develop:done", "L329"),
      L323 |-> Yield("develop:error", "L325"),
      L325 |-> Return,
      L329 |-> Return ]

\* AnalyzeCommand.execute
AnalyzeBody ==
    [ L10 |-> Await("detectEnvironment", "L12"),
      L12 |-> If("hasNix", "L17", "L13"),
      L13 |-> Yield("analyze:help", "L14"),
      L14 |-> Return,
      L17 |-> If("hasFlake", "L22", "L18"),
      L18 |-> Yield("analyze:help", "L19"),
      L19 |-> Return,
      L22 |-> Yield("analyze:starting", "L25"),
      L25 |-> Await("readFlakeFile", "L30"),
      L30 |-> Yield("analyze:info", "L56"),
      L56 |-> Await("loadConfig", "L57"),
      L57 |-> Await("createProvider", "L60"),
      L60 |-> Await("executePrompt", "L66"),
      L66 |-> Yield("analyze:result", "L74"),
      L68 |-> Yield("analyze:error", "L70"),
      L70 |-> Return,
      L74 |-> Return ]

\* SuggestCommand.execute
SuggestBody ==
    [ L9 |-> Await("detectEnvironment", "L11"),
      L11 |-> If("hasNix", "L16", "L12"),
      L12 |-> Yield("suggest:help", "L13"),
      L13 |-> Return,
      L16 |-> If("hasFlake", "L21", "L17"),
      L17 |-> Yield("suggest:help", "L18"),
      L18 |-> Return,
      L21 |-> Yield("suggest:starting", "L23"),
      L23 |-> Await("readFlakeFile", "L41"),
      L41 |-> Await("loadConfig", "L42"),
      L42 |-> Await("createProvider", "L44"),
      L44 |-> Await("executePrompt", "L50"),
      L50 |-> Yield("suggest:result", "L55"),
      L53 |-> Yield("suggest:error", "L54"),
      L54 |-> Return,
      L55 |-> Return ]

\* ExplainCommand.execute
ExplainBody ==
    [ L8 |-> Await("detectEnvironment", "L10"),
      L10 |-> If("hasNix", "L15", "L11"),
      L11 |-> Yield("explain:help", "L12"),
      L12 |-> Return,
      L15 |-> If("hasFlake", "L20", "L16"),
      L16 |-> Yield("explain:help", "L17"),
      L17 |-> Return,
      L20 |-> Yield("explain:starting", "L22"),
      L22 |-> Await("readFlakeFile", "L59"),
      L59 |-> Await("createProvider", "L61"),
      L61 |-> Await("executePrompt", "L67"),
      L67 |-> Yield("explain:result", "L75"),
      L69 |-> Yield("explain:error", "L71"),
      L71 |-> Return,
      L75 |-> Return ]

\* FixCommand.execute
FixBody ==
    [ L9 |-> Await("detectEnvironment", "L11"),
      L11 |-> If("hasNix", "L16", "L12"),
      L12 |-> Yield("fix:help", "L13"),
      L13 |-> Return,
      L16 |-> Yield("fix:starting", "L23"),
      L23 |-> If("hasFlake", "L25", "L38"),
      L25 |-> Await("readFlakeFile", "L26"),
      L26 |-> Await("validateFlake", "L38"),
      L38 |-> Yield("fix:problem", "L39"),
      L39 |-> Yield("fix:analyzing", "L43"),
      L43 |-> If("mentionsError", "L50", "L98"),
      L50 |-> Await("executeNixCommand", "L98"),
      L98 |-> Await("loadConfig", "L99"),
      L99 |-> Await("createProvider", "L103"),
      L103 |-> Await("executePrompt", "L109"),
      L109 |-> Yield("fix:advice", "L112"),
      L112 |-> Yield("fix:next", "L130"),
      L118 |-> Yield("fix:error", "L126"),
      L126 |-> Return,
      L130 |-> Return ]

\* The reads of lines 25-26 and the flake check of line 50 have catch clauses
\* of their own, after which the body goes on.
FixHandlers ==
    [ L9 |-> "L118", L11 |-> "L118", L12 |-> "L118", L13 |-> "L118", L16 |-> "L118",
      L23 |-> "L118", L25 |-> "L38", L26 |-> "L38", L38 |-> "L118", L39 |-> "L118",
      L43 |-> "L118", L50 |-> "L98", L98 |-> "L118", L99 |-> "L118", L103 |-> "L118",
      L109 |-> "L118", L112 |-> "L118", L118 |-> "none", L126 |-> "none",
      L130 |-> "none" ]

\* GitCommand.execute.  U56..U158 are the steps of NixUtils.detectEnvironment
\* (utils.ts lines 56-58 and 157-158) that find hasGit and flakeTracked.
GitBody ==
    [ L7 |-> Await("detectEnvironment", "U56"),
      U56 |-> If("hasFlake", "U57", "L11"),
      U57 |-> Await("detectGitStatus", "U157"),
      U157 |-> If("hasGit", "U158", "L11"),
      U158 |-> Await("gitLsFiles", "L11"),
      L11 |-> If("noAction", "L12", "L17"),
      L12 |-> Yield("git:help", "L13"),
      L13 |-> Return,
      L17 |-> If("actionStatus", "L18", "L20"),
      L18 |-> YieldStar("gitCheckStatus", "L36"),
      L20 |-> If("actionAdd", "L21", "L23"),
      L21 |-> YieldStar("gitAddFiles", "L36"),
      L23 |-> If("actionFix", "L24", "L27"),
      L24 |-> YieldStar("gitFixGitIssues", "L36"),
      L27 |-> Yield("git:unknown", "L36"),
      L30 |-> Yield("git:error", "L32"),
      L32 |-> Return,
      L36 |-> Return ]

\* GitCommand.checkStatus
GitCheckStatusBody ==
    [ L39 |-> Yield("git:checking", "L41"),
      L41 |-> Yield("git:report", "L47"),
      L47 |-> Yield("git:status", "L49"),
      L49 |-> If("hasGit", "L55", "L50"),
      L50 |-> Yield("git:advice", "L55"),
      L55 |-> Return ]

\* GitCommand.addFiles
GitAddFilesBody ==
    [ L58 |-> If("hasGit", "L66", "L59"),
      L59 |-> Yield("git:norepo", "L63"),
      L63 |-> Return,
      L66 |-> Yield("git:adding", "L68"),
      L68 |-> Await("addFlakeToGit", "L70"),
      L70 |-> If("success", "L71", "L80"),
      L71 |-> Yield("git:added", "L82"),
      L80 |-> Yield("git:addfailed", "L82"),
      L82 |-> Return ]

\* GitCommand.fixGitIssues; fixed is true exactly when addFlakeToGit was
\* called and reported success.
GitFixGitIssuesBody ==
    [ L85 |-> Yield("git:fixing", "L90"),
      L90 |-> If("hasGit", "L101", "L91"),
      L91 |-> Yield("git:cannotfix", "L97"),
      L97 |-> Return,
      L101 |-> If("flakeUntracked", "L102", "L111"),
      L102 |-> Await("addFlakeToGit", "L103"),
      L103 |-> If("success", "L104", "L107"),
      L104 |-> Yield("git:fix-added", "L111"),
      L107 |-> Yield("git:fix-failed", "L111"),
      L111 |-> If("success", "L112", "L117"),
      L112 |-> Yield("git:fixed", "L119"),
      L117 |-> Yield("git:nothing", "L119"),
      L119 |-> Return ]

\* AskCommand.execute.  The model tables of lines 62-107 are data; one
\* document stands for the loop over options.withDoc.
AskBody ==
    [ L22 |-> If("noneAvailable", "L23", "L33"),
      L23 |-> Throw("noProviders"),
      L33 |-> If("providerUnknown", "L34", "L40"),
      L34 |-> Throw("invalidProvider"),
      L40 |-> If("providerUnavailable", "L41", "L50"),
      L41 |-> Throw("providerNotAvailable"),
      L50 |-> If("modelGiven", "L111", "L52"),
      L52 |-> If("isApizh", "L54", "L111"),
      L54 |-> Await("createProvider", "L61"),
      L61 |-> Await("getModel", "L111"),
      L111 |-> Await("createProvider", "L118"),
      L118 |-> If("withDoc", "L128", "L179"),
      L128 |-> Await("fetchDocContent", "L179"),
      L179 |-> Await("executePrompt", "L188"),
      L188 |-> Await("trackTelemetry", "L210"),
      L203 |-> Throw("wrapped"),
      L210 |-> Yield("ask:answer", "L211"),
      L211 |-> Return ]

\* The catch clause of line 202 goes back to createProvider and asks again.
AskHandlersRetry ==
    [ L22 |-> "none", L23 |-> "none", L33 |-> "none", L34 |-> "none", L40 |-> "none",
      L41 |-> "none", L50 |-> "none", L52 |-> "none", L54 |-> "none", L61 |-> "none",
      L111 |-> "none", L118 |-> "none", L128 |-> "L179", L179 |-> "L111",
      L188 |-> "L203", L203 |-> "none", L210 |-> "none", L211 |-> "none" ]

\* The catch clause of line 202 yields the answer instead of throwing.
AskHandlersSwallow ==
    [ L22 |-> "none", L23 |-> "none", L33 |-> "none", L34 |-> "none", L40 |-> "none",
      L41 |-> "none", L50 |-> "none", L52 |-> "none", L54 |-> "none", L61 |-> "none",
      L111 |-> "none", L118 |-> "none", L128 |-> "L179", L179 |-> "L210",
      L188 |-> "L210", L203 |-> "none", L210 |-> "none", L211 |-> "none" ]

AskHandlers ==
    [ L22 |-> "none", L23 |-> "none", L33 |-> "none", L34 |-> "none", L40 |-> "none",
      L41 |-> "none", L50 |-> "none", L52 |-> "none", L54 |-> "none", L61 |-> "none",
      L111 |-> "none", L118 |-> "none", L128 |-> "L179", L179 |-> "L203",
      L188 |-> "L203", L203 |-> "none", L210 |-> "none", L211 |-> "none" ]

\* InstallCommand.setupApiKeys.  One required provider stands for the loop
\* of lines 56-99.
SetupApiKeysBody ==
    [ L48 |-> Await("loadEnv", "L70"),
      L70 |-> If("keyInEnv", "L102", "L77"),
      L77 |-> If("skipSetup", "L102", "L86"),
      L86 |-> Await("consolaPrompt", "L102"),
      L102 |-> If("hasKey", "L110", "L106"),
      L106 |-> Return,
      L110 |-> If("nonInteractive", "L114", "L119"),
      L114 |-> Return,
      L119 |-> Await("writeKeysToFileHome", "L132"),
      L123 |-> Await("writeKeysToFileLocal", "L132"),
      L130 |-> Yield("install:keys-error", "L132"),
      L132 |-> Return ]

SetupApiKeysHandlers ==
    [ L48 |-> "L130", L70 |-> "L130", L77 |-> "L130", L86 |-> "L130",
      L102 |-> "L130", L106 |-> "L130", L110 |-> "L130", L114 |-> "L130",
      L119 |-> "L123", L123 |-> "L130", L130 |-> "none", L132 |-> "none" ]

\* InstallCommand.execute.  The prompts of lines 506-888 are one operation.
InstallBody ==
    [ L360 |-> If("json", "L362", "L393"),
      L362 |-> ForAwait("jsonInstall", "L363", "L365"),
      L363 |-> YieldMessage("L362"),
      L365 |-> Return,
      L393 |-> Await("loadEnv", "L396"),
      L396 |-> Await("checkLocalDependencies", "L402"),
      L402 |-> YieldStar("legacyMigration", "L404"),
      L404 |-> If("nonInteractive", "L416", "L507"),
      L416 |-> Await("getExistingConfig", "L418"),
      L418 |-> If("existingConfig", "L464", "L487"),
      L464 |-> YieldStar("setupApiKeys", "L465"),
      L465 |-> Await("createConfig", "L469"),
      L469 |-> Await("ensurePlaywrightBrowsers", "L473"),
      L473 |-> Await("handleIDERules", "L479"),
      L479 |-> Return,
      L487 |-> YieldStar("setupApiKeys", "L488"),
      L488 |-> Await("createConfig", "L492"),
      L492 |-> Await("ensurePlaywrightBrowsers", "L496"),
      L496 |-> Await("handleIDERules", "L502"),
      L502 |-> Return,
      L507 |-> Await("interactivePrompts", "L891"),
      L891 |-> ForAwait("setupApiKeys", "L892", "L896"),
      L892 |-> YieldMessage("L891"),
      L896 |-> Await("createConfig", "L900"),
      L900 |-> Await("ensurePlaywrightBrowsers", "L904"),
      L904 |-> Await("handleIDERules", "L954"),
      L935 |-> Await("consolaBox", "L954"),
      L954 |-> Return ]

\* The json delegation of lines 360-366 is outside the try of line 370.
InstallHandlers ==
    [ L360 |-> "none", L362 |-> "none", L363 |-> "none", L365 |-> "none",
      L393 |-> "L935", L396 |-> "L935", L402 |-> "L935", L404 |-> "L935",
      L416 |-> "L935", L418 |-> "L935", L464 |-> "L935", L465 |-> "L935",
      L469 |-> "L935", L473 |-> "L935", L479 |-> "L935", L487 |-> "L935",
      L488 |-> "L935", L492 |-> "L935", L496 |-> "L935", L502 |-> "L935",
      L507 |-> "L935", L891 |-> "L935", L892 |-> "L935", L896 |-> "L935",
      L900 |-> "L935", L904 |-> "L935", L935 |-> "none", L954 |-> "none" ]

\* The most chunks a producer of unknown body yields.
MaxOpaqueChunks == 2

\* JsonInstallCommand.execute and handleLegacyMigration: any number of
\* chunks, each after some work, then a return; the work can fail.
OpaqueBody(name) ==
    [ P1 |-> Await("work", "P2"),
      P2 |-> If("more", "P3", "P4"),
      P3 |-> YieldNth(name, "P1"),
      P4 |-> Return ]

OpaqueHandlers == [ P1 |-> "none", P2 |-> "none", P3 |-> "none", P4 |-> "none" ]

Program ==
    [assist |-> AssistBody, nix |-> NixBody, init |-> InitBody, ask |-> AskBody,
     install |-> InstallBody, setupApiKeys |-> SetupApiKeysBody,
     troubleshoot |-> TroubleshootBody,
     jsonInstall |-> OpaqueBody("json"), legacyMigration |-> OpaqueBody("legacy"),
     build |-> BuildBody, run |-> RunBody, update |-> UpdateBody, fmt |-> FmtBody,
     check |-> CheckBody, develop |-> DevelopBody, analyze |-> AnalyzeBody,
     suggest |-> SuggestBody, explain |-> ExplainBody, fix |-> FixBody, git |-> GitBody,
     gitCheckStatus |-> GitCheckStatusBody, gitAddFiles |-> GitAddFilesBody,
     gitFixGitIssues |-> GitFixGitIssuesBody]

\* The handlers of a body that is one try block with one catch clause: an
\* error raised at a label of the try block goes to the catch clause, one
\* raised in the catch clause or after it leaves the generator.
TryCatch(body, catch, outside) ==
    [l \in DOMAIN body |-> IF l \in outside THEN "none" ELSE catch]

\* The handlers of a body without try: every error leaves the generator.
NoTry(body) == [l \in DOMAIN body |-> "none"]

Handlers ==
    [assist |-> AssistHandlers, nix |-> NixHandlers, init |-> InitHandlers,
     ask |-> AskHandlers, install |-> InstallHandlers,
     setupApiKeys |-> SetupApiKeysHandlers, troubleshoot |-> TroubleshootHandlers,
     jsonInstall |-> OpaqueHandlers, legacyMigration |-> OpaqueHandlers,
     build |-> TryCatch(BuildBody, "L47", {"L47", "L49", "L53"}),
     run |-> TryCatch(RunBody, "L42", {"L42", "L44", "L48"}),
     update |-> TryCatch(UpdateBody, "L48", {"L48", "L55", "L59"}),
     fmt |-> TryCatch(FmtBody, "L39", {"L39", "L46", "L50"}),
     check |-> TryCatch(CheckBody, "L39", {"L39", "L46", "L50"}),
     develop |-> TryCatch(DevelopBody, "L323", {"L323", "L325", "L329"}),
     analyze |-> TryCatch(AnalyzeBody, "L68", {"L68", "L70", "L74"}),
     suggest |-> TryCatch(SuggestBody, "L53", {"L53", "L54", "L55"}),
     explain |-> TryCatch(ExplainBody, "L69", {"L69", "L71", "L75"}),
     fix |-> FixHandlers,
     git |-> TryCatch(GitBody, "L30", {"L30", "L32", "L36"}),
     gitCheckStatus |-> NoTry(GitCheckStatusBody),
     gitAddFiles |-> NoTry(GitAddFilesBody),
     gitFixGitIssues |-> NoTry(GitFixGitIssuesBody)]

\* The first statement of each body.
Entry ==
    [assist |-> "L9", nix |-> "L13", init |-> "L8", ask |-> "L22", install |-> "L360",
     setupApiKeys |-> "L48", troubleshoot |-> "L125", jsonInstall |-> "P1", legacyMigration |-> "P1",
     build |-> "L8", run |-> "L8", update |-> "L8", fmt |-> "L8", check |-> "L8",
     develop |-> "L293", analyze |-> "L10", suggest |-> "L9", explain |-> "L8",
     fix |-> "L9", git |-> "L7", gitCheckStatus |-> "L39", gitAddFiles |-> "L58",
     gitFixGitIssues |-> "L85"]

\* The operations that cannot fail: detectEnvironment, detectGitStatus (and
\* its git ls-files), validateFlake and addFlakeToGit catch every error
\* themselves; consola.box prints.
CanFail(op) ==
    op \notin {"detectEnvironment", "detectGitStatus", "gitLsFiles", "validateFlake",
              "addFlakeToGit", "consolaBox"}

(***************************************************************************)
(* Generator mechanics                                                     *)
(***************************************************************************)

Frame(gen, pc) == [gen |-> gen, pc |-> pc]

Top(r) == r.stack[Len(r.stack)]

\* The frame that runs when the generator is resumed: the innermost one,
\* except that a for-await loop holding a message runs its own body.
RunningIndex(r) ==
    IF Len(r.stack) >= 2
         /\ Program[r.stack[Len(r.stack) - 1].gen][r.stack[Len(r.stack) - 1].pc].kind
              = "reyield"
    THEN Len(r.stack) - 1
    ELSE Len(r.stack)

Running(r) == r.stack[RunningIndex(r)]

Stmt(r) == Program[Running(r).gen][Running(r).pc]

\* An async generator is lazy: its body runs only while a next() is pending.
CanResumeEager(r) == r.stack # << >>

CanResume(r) == r.requested /\ r.stack # << >>

Goto(r, pc) == [r EXCEPT !.stack[RunningIndex(r)].pc = pc]

\* The pending request is answered with a chunk.
Deliver(r, chunk) ==
    [r EXCEPT !.out = [kind |-> "chunk", value |-> chunk, error |-> NoError],
              !.requested = FALSE]

\* The running frame yields chunk and will resume at next.  A frame under a
\* yield*, or the outermost frame, hands the chunk to the caller; a frame
\* pulled by a for-await loop hands it to the loop, which then runs its body.
\* (No body delegates more than one level deep.)
DoYield(r, chunk, next) ==
    LET k == RunningIndex(r)
        logged == [Goto(r, next) EXCEPT !.yielded = Append(r.yielded, chunk)]
    IN IF k = 1 THEN Deliver(logged, chunk)
       ELSE LET parent == r.stack[k - 1]
                pstmt == Program[parent.gen][parent.pc]
            IN IF pstmt.kind = "forawait"
               THEN [logged EXCEPT !.stack[k - 1].pc = pstmt.next,
                                   !.loc.message = chunk]
               ELSE Deliver(logged, chunk)

\* The top frame never gets past its return.
DoReturnHangs(r) == r

\* The top frame returns: the generator is done, or the delegating frame
\* goes on after its yield* or its loop.
DoReturn(r) ==
    LET rest == SubSeq(r.stack, 1, Len(r.stack) - 1) IN
    IF rest = << >>
    THEN [r EXCEPT !.stack = << >>,
                   !.out = [kind |-> "done", value |-> NoChunk, error |-> NoError],
                   !.requested = FALSE]
    ELSE LET parent == rest[Len(rest)]
             pstmt == Program[parent.gen][parent.pc]
         IN [r EXCEPT !.stack = [rest EXCEPT ![Len(rest)].pc =
                                    IF pstmt.kind = "forawait" THEN pstmt.alt
                                    ELSE pstmt.next]]

\* An error is raised in the top frame: the enclosing catch clause takes it,
\* or the frame is left and the error is raised at the delegation of the
\* frame below; with no frame left the pending next() rejects with it.
RECURSIVE DoRaise(_, _)
DoRaise(r, e) ==
    LET top == Top(r)
        h == Handlers[top.gen][top.pc]
        rest == SubSeq(r.stack, 1, Len(r.stack) - 1)
    IN IF h # "none"
       THEN [r EXCEPT !.stack[Len(r.stack)].pc = h, !.loc.err = e]
       ELSE IF rest = << >>
       THEN [r EXCEPT !.stack = << >>,
                      !.out = [kind |-> "error", value |-> NoChunk, error |-> e],
                      !.requested = FALSE]
       ELSE DoRaise([r EXCEPT !.stack = rest], e)

\* options?.provider || config.apizh?.provider || 'apizh'
ProviderName(o) ==
    IF Truthy(o.provider) THEN o.provider
    ELSE IF Truthy(o.configProvider) THEN o.configProvider
    ELSE "apizh"

\* The conditions the bodies branch on.
Cond(r, c, e) ==
    CASE c = "queryEmpty" -> r.opts.queryEmpty
      [] c = "hasNix" -> r.loc.hasNix
      [] c = "hasFlake" -> r.loc.hasFlake
      [] c = "hasGit" -> r.loc.hasGit
      [] c = "json" -> r.opts.json
      [] c = "nonInteractive" -> r.opts.nonInteractive
      [] c = "existingConfig" -> r.opts.existingConfig
      [] c = "skipSetup" -> r.opts.skipSetup
      [] c = "keyInEnv" -> IsSet(e, "APIZH_API_KEY")
      [] c = "hasKey" -> IsSet(e, "APIZH_API_KEY") \/ r.loc.key
      [] c = "more" -> r.loc.more /\ r.loc.count < MaxOpaqueChunks
      [] c = "noneAvailable" ->
            \A k \in 1..Len(getAllProviders(e)) : ~getAllProviders(e)[k].available
      [] c = "providerUnknown" -> getProviderInfo(ProviderName(r.opts), e) = NoInfo
      [] c = "providerUnavailable" -> ~getProviderInfo(ProviderName(r.opts), e).available
      [] c = "modelGiven" -> r.opts.model
      [] c = "isApizh" -> ProviderName(r.opts) = "apizh"
      [] c = "withDoc" -> r.opts.withDoc
      [] c = "noIssues" -> r.loc.hasNix /\ r.loc.hasFlake /\ r.loc.valid
      [] c = "stdout" -> r.loc.stdout
      [] c = "stderr" -> r.loc.stderr
      [] c = "success" -> r.loc.success
      [] c = "flakeUntracked" -> r.loc.hasFlake /\ ~r.loc.flakeTracked
      [] c = "noAction" -> r.opts.action = ""
      [] c = "actionStatus" -> r.opts.action = "status"
      [] c = "actionAdd" -> r.opts.action = "add"
      [] c = "actionFix" -> r.opts.action = "fix"
      [] c = "mentionsError" ->
            (r.loc.hasFlake /\ r.opts.mentions = "error") \/ r.opts.mentions = "failure"

ProviderError(cause) == [type |-> "ProviderError", cause |-> cause, message |-> NoMessage]

\* The messages of the errors AskCommand raises before it creates a
\* provider: line 24 names no provider; lines 35-37 and 42-44 name
\* providerName and list the available providers.
AskMessage(what, o, e) ==
    IF what = "noProviders" THEN NoMessage
    ELSE [named |-> ProviderName(o), lists |-> TRUE,
          listed |-> [k \in 1..Len(getAvailableProviders(e)) |->
                         getAvailableProviders(e)[k].provider]]

\* The error a throw statement raises: the caught error again, a new
\* ProviderError, or a ProviderError around the caught error.
ThrowValue(r, what, e) ==
    CASE what = "error" -> r.loc.err
      [] what = "wrapped" -> ProviderError(r.loc.err.cause)
      [] OTHER -> [ProviderError(what) EXCEPT !.message = AskMessage(what, r.opts, e)]

OpError(op) == [type |-> "Error", cause |-> op, message |-> NoMessage]

\* The model tables of AskCommand.execute.
apizhModels ==
    [ apizh_coding |-> "claude-opus-4-20250514-thinking",
      apizh_chinese |-> "qwen3-235b-a22b",
      apizh_analysis |-> "claude-sonnet-4-20250514",
      apizh_creative |-> "claude-opus-4-20250514",
      apizh_math |-> "o1",
      apizh_web |-> "gemini-2.5-pro-exp-03-25",
      apizh_reasoning |-> "o1-mini",
      apizh_cost |-> "gpt-4o-mini" ]

otherProviderModels ==
    [ openai |-> "gpt-4.1",
      anthropic |-> "claude-sonnet-4-20250514",
      gemini |-> "gemini-2.5-pro",
      perplexity |-> "sonar-pro",
      openrouter |-> "openai/gpt-4.1",
      modelbox |-> "openai/gpt-4.1",
      xai |-> "grok-3-latest",
      apizh |-> "gpt-4o-mini" ]

\* The model AskCommand passes to the provider: options.model, or what the
\* base apizh provider recommends, or the entry of one of the two tables
\* (the first for the names of the registry that start with 'apizh-').
AskModel(o) ==
    IF o.model THEN "<options.model>"
    ELSE IF ProviderName(o) = "apizh" THEN "<getModel>"
    ELSE IF ProviderName(o) \in Providers \ DOMAIN otherProviderModels
    THEN IF ProviderName(o) \in DOMAIN apizhModels
         THEN apizhModels[ProviderName(o)] ELSE "gpt-4o-mini"
    ELSE IF ProviderName(o) \in DOMAIN otherProviderModels
         THEN otherProviderModels[ProviderName(o)] ELSE "gpt-4.1"

\* An external operation, how many chunks had been yielded when it was
\* started, the model it was given, and whether it is a write to a
\* flake.nix that exists (fs.writeFile replaces the file).
OpRecord(r, op) ==
    [name |-> op, after |-> Len(r.yielded),
     model |-> IF r.cmd = "ask" /\ op = "executePrompt" THEN AskModel(r.opts) ELSE "<none>",
     replaces |-> op = "writeFlakeFile" /\ flake]

\* What an operation can settle with: a value that is read as true or
\* false, and for a nix command whether it wrote to stderr as well.
Results == [value : BOOLEAN, stderr : BOOLEAN]

\* What a settled operation leaves in the locals: hasNix and hasGit are as
\* the machine is, hasFlake is whether fs.access finds flake.nix.
Bind(r, op, b, f) ==
    CASE op = "detectEnvironment" -> [r EXCEPT !.loc.hasNix = b.value, !.loc.hasFlake = f]
      [] op = "detectGitStatus" -> [r EXCEPT !.loc.hasGit = b.value]
      [] op = "gitLsFiles" -> [r EXCEPT !.loc.flakeTracked = b.value]
      [] op = "consolaPrompt" -> [r EXCEPT !.loc.key = b.value]
      [] op = "work" -> [r EXCEPT !.loc.more = b.value]
      [] op = "validateFlake" -> [r EXCEPT !.loc.valid = b.value]
      [] op = "addFlakeToGit" -> [r EXCEPT !.loc.success = b.value]
      [] op = "executeNixCommand" ->
            [r EXCEPT !.loc.stdout = b.value, !.loc.stderr = b.stderr]
      [] OTHER -> r

\* The file system after an operation that succeeded.
FlakeAfter(op, f) == IF op = "writeFlakeFile" THEN TRUE ELSE f

(***************************************************************************)
(* Steps of a generator                                                    *)
(***************************************************************************)

Others == <<env, lastCall, walk, memo, query>>

StepYield(i) ==
    /\ CanResume(inv[i])
    /\ Stmt(inv[i]).kind = "yield"
    /\ inv' = [inv EXCEPT ![i] =
                 DoYield(inv[i], Chunk(Stmt(inv[i]).arg, 0), Stmt(inv[i]).next)]
    /\ UNCHANGED <<flake, Others>>

StepYieldNth(i) ==
    /\ CanResume(inv[i])
    /\ Stmt(inv[i]).kind = "yieldnth"
    /\ inv' = [inv EXCEPT ![i] =
                 DoYield([inv[i] EXCEPT !.loc.count = @ + 1],
                         Chunk(Stmt(inv[i]).arg, inv[i].loc.count + 1),
                         Stmt(inv[i]).next)]
    /\ UNCHANGED <<flake, Others>>

\* for await (const message of inner) { yield message }: the message is
\* lost instead.
StepYieldMessageDropped(i) ==
    /\ CanResume(inv[i])
    /\ Stmt(inv[i]).kind = "reyield"
    /\ inv' = [inv EXCEPT ![i] = Goto(inv[i], Stmt(inv[i]).next)]
    /\ UNCHANGED <<flake, Others>>

\* for await (const message of inner) { yield message }
StepYieldMessage(i) ==
    /\ CanResume(inv[i])
    /\ Stmt(inv[i]).kind = "reyield"
    /\ inv' = [inv EXCEPT ![i] = Deliver(Goto(inv[i], Stmt(inv[i]).next),
                                         inv[i].loc.message)]
    /\ UNCHANGED <<flake, Others>>

\* An awaited (or called) external operation is started and settles.
StepAwaitOk(i, b) ==
    /\ CanResume(inv[i])
    /\ Stmt(inv[i]).kind = "await"
    /\ LET op == Stmt(inv[i]).arg
           started == [inv[i] EXCEPT !.ops = Append(inv[i].ops, OpRecord(inv[i], op))]
       IN /\ op # "executeNixCommand" => ~b.stderr
          /\ inv' = [inv EXCEPT ![i] = Goto(Bind(started, op, b, flake), Stmt(inv[i]).next)]
          /\ flake' = FlakeAfter(op, flake)
    /\ UNCHANGED Others

\* An awaited (or called) external operation is started and fails.
StepAwaitFail(i) ==
    /\ CanResume(inv[i])
    /\ Stmt(inv[i]).kind = "await"
    /\ CanFail(Stmt(inv[i]).arg)
    /\ LET op == Stmt(inv[i]).arg
           started == [inv[i] EXCEPT !.ops = Append(inv[i].ops, OpRecord(inv[i], op)),
                                     !.raised = OpError(op)]
       IN inv' = [inv EXCEPT ![i] = DoRaise(started, OpError(op))]
    /\ UNCHANGED <<flake, Others>>

StepIf(i) ==
    /\ CanResume(inv[i])
    /\ Stmt(inv[i]).kind = "if"
    /\ inv' = [inv EXCEPT ![i] =
                 Goto(inv[i], IF Cond(inv[i], Stmt(inv[i]).arg, env)
                              THEN Stmt(inv[i]).next ELSE Stmt(inv[i]).alt)]
    /\ UNCHANGED <<flake, Others>>

StepReturn(i) ==
    /\ CanResume(inv[i])
    /\ Stmt(inv[i]).kind = "return"
    /\ inv' = [inv EXCEPT ![i] = DoReturn(inv[i])]
    /\ UNCHANGED <<flake, Others>>

StepThrow(i) ==
    /\ CanResume(inv[i])
    /\ Stmt(inv[i]).kind = "throw"
    /\ LET e == ThrowValue(inv[i], Stmt(inv[i]).arg, env)
       IN inv' = [inv EXCEPT ![i] = DoRaise([inv[i] EXCEPT !.raised = e], e)]
    /\ UNCHANGED <<flake, Others>>

\* yield* inner.execute(...) or for await (... of inner.execute(...)): the
\* inner generator is created and is the one that runs.
StepDelegate(i) ==
    /\ CanResume(inv[i])
    /\ RunningIndex(inv[i]) = Len(inv[i].stack)
    /\ Stmt(inv[i]).kind \in {"yield*", "forawait"}
    /\ inv' = [inv EXCEPT
                 ![i].stack = Append(@, Frame(Stmt(inv[i]).arg, Entry[Stmt(inv[i]).arg])),
                 ![i].loc.count = 0]
    /\ UNCHANGED <<flake, Others>>

\* next() on a generator that has returned or thrown answers done.
StepClosed(i) ==
    /\ inv[i].requested
    /\ inv[i].stack = << >>
    /\ inv' = [inv EXCEPT ![i].out = [kind |-> "done", value |-> NoChunk, error |-> NoError],
                          ![i].requested = FALSE]
    /\ UNCHANGED <<flake, Others>>

Step(i) ==
    \/ StepYield(i)
    \/ StepYieldNth(i)
    \/ StepYieldMessage(i)
    \/ \E b \in Results : StepAwaitOk(i, b)
    \/ StepAwaitFail(i)
    \/ StepIf(i)
    \/ StepReturn(i)
    \/ StepThrow(i)
    \/ StepDelegate(i)
    \/ StepClosed(i)

(***************************************************************************)
(* The caller of a command                                                 *)
(***************************************************************************)

\* The producers of the nix sub-commands.
NixSubCommands ==
    {"analyze", "build", "check", "develop", "explain", "fix", "fmt", "git", "init",
     "run", "suggest", "update", "assist", "troubleshoot"}

Commands == {"nix", "ask", "install"} \cup NixSubCommands

\* command.execute(query, options): the generator object is created; nothing
\* of the body has run.
Invoke(i, cmd, o) ==
    /\ inv[i].cmd = "none"
    /\ inv' = [inv EXCEPT ![i] =
                 [IdleInvocation EXCEPT !.cmd = cmd, !.opts = o,
                                        !.stack = << Frame(cmd, Entry[cmd]) >>]]
    /\ UNCHANGED <<flake, Others>>

\* The caller asks for the next chunk.
CallerNext(i) ==
    /\ inv[i].cmd # "none"
    /\ ~inv[i].requested
    /\ inv[i].out.kind = "none"
    /\ ~inv[i].abandoned
    /\ inv' = [inv EXCEPT ![i].requested = TRUE]
    /\ UNCHANGED <<flake, Others>>

\* The caller takes what its request was answered with.
CallerTake(i) ==
    /\ inv[i].out.kind # "none"
    /\ inv' = [inv EXCEPT
                 ![i].out = NoOutput,
                 ![i].received = IF inv[i].out.kind = "chunk"
                                 THEN Append(@, inv[i].out.value) ELSE @,
                 ![i].terminal = IF @ # "none" THEN @
                                 ELSE IF inv[i].out.kind = "done" THEN "completed"
                                 ELSE IF inv[i].out.kind = "error" THEN "failed"
                                 ELSE @,
                 ![i].error = IF inv[i].out.kind = "error" THEN inv[i].out.error ELSE @]
    /\ UNCHANGED <<flake, Others>>

\* The caller stops asking before the generator has ended.
CallerAbandon(i) ==
    /\ inv[i].cmd # "none"
    /\ ~inv[i].requested
    /\ inv[i].out.kind = "none"
    /\ inv[i].terminal = "none"
    /\ ~inv[i].abandoned
    /\ inv' = [inv EXCEPT ![i].abandoned = TRUE]
    /\ UNCHANGED <<flake, Others>>

\* The queries and options a command is invoked with.
OptionSets(cmd) ==
    CASE cmd = "ask" ->
            {[NoOptions EXCEPT !.provider = p, !.configProvider = c,
                               !.model = m, !.withDoc = d] :
                p \in {Omitted, "openai", "apizh_coding", "bogus"}, c \in {Omitted, "gemini"},
                m \in BOOLEAN, d \in BOOLEAN}
      [] cmd = "install" ->
            {[NoOptions EXCEPT !.json = j, !.nonInteractive = n,
                               !.skipSetup = s, !.existingConfig = x] :
                j \in BOOLEAN, n \in BOOLEAN, s \in BOOLEAN, x \in BOOLEAN}
      [] cmd = "fix" ->
            {[NoOptions EXCEPT !.mentions = m] : m \in {"", "error", "failure"}}
      [] cmd = "git" ->
            {[NoOptions EXCEPT !.action = a] : a \in {"", "status", "add", "fix", "other"}}
      [] OTHER -> {[NoOptions EXCEPT !.queryEmpty = q] : q \in BOOLEAN}

\* One invocation at a time.
StreamInvocations == {1}

InitStream ==
    /\ env \in SUBSET {"OPENAI_API_KEY", "APIZH_API_KEY"}
    /\ lastCall = NoCall
    /\ walk = WalkIdle
    /\ memo = NoCall
    /\ inv = [i \in Invocations |-> IdleInvocation]
    /\ flake \in BOOLEAN
    /\ query = NoQuery

NextStream ==
    \E i \in StreamInvocations :
        \/ \E cmd \in Commands : \E o \in OptionSets(cmd) : Invoke(i, cmd, o)
        \/ CallerNext(i)
        \/ CallerTake(i)
        \/ CallerAbandon(i)
        \/ Step(i)

SpecStream == InitStream /\ [][NextStream]_vars

(***************************************************************************)
(* The stream a caller observes                                            *)
(***************************************************************************)

\* A for-await loop holds a message it has not yet yielded.
Holding(r) == Len(r.stack) >= 2 /\ RunningIndex(r) < Len(r.stack)

\* The chunks yielded and not yet taken by the caller.
Pending(r) ==
    IF r.out.kind = "chunk" THEN << r.out.value >>
    ELSE IF Holding(r) THEN << r.loc.message >>
    ELSE << >>

\* The generator rejects, or has rejected, with an error.
Failing(r) == r.out.kind = "error" \/ r.terminal = "failed"

AssistReply ==
    << Chunk("assist:starting", 0), Chunk("assist:environment", 0),
       Chunk("assist:model", 0), Chunk("assist:reply", 0), Chunk("assist:more", 0) >>

\* C9: the chunks the caller has received, followed by the one on its way,
\* are the chunks yielded so far, in the order they were yielded, each once;
\* what InstallCommand re-yields from the json installer is chunk 1, 2, ... in
\* that order, and what NixCommand delivers for a query AssistCommand answers
\* without an error is AssistCommand's own sequence.
C9_ChunksInOrder ==
    LET r == inv[1] IN
    /\ r.received \o Pending(r) = r.yielded
    /\ (r.cmd = "install" /\ r.opts.json) =>
          \A j \in 1..Len(r.received) : r.received[j] = Chunk("json", j)
    /\ (r.cmd = "nix" /\ ~r.opts.queryEmpty /\ r.terminal = "completed"
          /\ r.raised = NoError) => r.received = AssistReply

\* NixCommand has delivered every chunk of AssistCommand.
C9_Witness ==
    /\ inv[1].cmd = "nix"
    /\ inv[1].terminal = "completed"
    /\ inv[1].received = AssistReply

\* C10: once the caller has stopped asking for chunks, the invocation does
\* not move: no statement of the body runs, no chunk is yielded, no external
\* operation is started and the file system is as it was; and what had been
\* yielded is what the caller received, every operation started having been
\* started before the last chunk it asked for.
C10_AbandonedNotDriven ==
    /\ [](inv[1].abandoned =>
            /\ inv[1].yielded = inv[1].received
            /\ ~inv[1].requested
            /\ \A j \in 1..Len(inv[1].ops) :
                   inv[1].ops[j].after < Len(inv[1].received) \/ inv[1].received = << >>)
    /\ [][inv[1].abandoned => (inv'[1] = inv[1] /\ flake' = flake)]_vars

\* InitCommand is abandoned after its first chunk, with the provider call and
\* the file write still ahead.
C10_Witness ==
    /\ inv[1].abandoned
    /\ inv[1].cmd = "init"
    /\ inv[1].received = << Chunk("init:generating", 0) >>
    /\ ~inv[1].loc.hasFlake
    /\ Top(inv[1]).pc = "L20"
    /\ \A j \in 1..Len(inv[1].ops) : inv[1].ops[j].name = "detectEnvironment"

(***************************************************************************)
(* Provider calls of one invocation                                        *)
(***************************************************************************)

\* The positions in the log of operations at which op was started.
Started(r, op) == {j \in 1..Len(r.ops) : r.ops[j].name = op}

\* The operations that reach a provider.
ProviderOps == {"createProvider", "getModel", "executePrompt"}

\* C11: an invocation of AskCommand, AssistCommand or NixCommand starts
\* provider.executePrompt at most once; when that call has failed no
\* operation is started after it, AskCommand goes to its catch clause and
\* fails with the ProviderError built around the error, AssistCommand reports
\* it and ends; and no invocation calls getNextAvailableProvider.
C11_NoRetry ==
    LET r == inv[1] IN
    /\ r.cmd \in {"ask", "assist", "nix"} => Cardinality(Started(r, "executePrompt")) <= 1
    /\ (r.cmd \in {"ask", "assist", "nix"} /\ r.raised.cause = "executePrompt") =>
          /\ r.ops[Len(r.ops)].name = "executePrompt"
          /\ r.cmd = "ask" =>
                \/ r.stack # << >> /\ Top(r).pc = "L203" /\ r.raised = OpError("executePrompt")
                \/ Failing(r) /\ r.raised = ProviderError("executePrompt")
          /\ r.cmd # "ask" => r.raised = OpError("executePrompt") /\ ~Failing(r)
    /\ Started(r, "getNextAvailableProvider") = {}
    /\ lastCall = NoCall

\* AskCommand called the provider once, the call failed and the caller saw
\* the failure.
C11_Witness ==
    /\ inv[1].cmd = "ask"
    /\ inv[1].terminal = "failed"
    /\ inv[1].error = ProviderError("executePrompt")
    /\ Cardinality(Started(inv[1], "executePrompt")) = 1
    /\ Cardinality(Started(inv[1], "createProvider")) = 1

(***************************************************************************)
(* An invocation whose caller keeps asking                                 *)
(***************************************************************************)

NextLive ==
    \E i \in StreamInvocations :
        \/ \E cmd \in Commands : \E o \in OptionSets(cmd) : Invoke(i, cmd, o)
        \/ CallerNext(i)
        \/ CallerTake(i)
        \/ Step(i)

\* Every awaited operation settles and every continuation that is ready
\* runs; the caller asks for the next chunk and takes what it is given.
SpecLive ==
    /\ InitStream
    /\ [][NextLive]_vars
    /\ \A i \in StreamInvocations :
          WF_vars(Step(i)) /\ WF_vars(CallerNext(i)) /\ WF_vars(CallerTake(i))

\* C12: every invocation reaches Completed or Failed; from then on the
\* terminal state stays as it is, the generator is finished, and no chunk is
\* yielded or received and no operation is started.
C12_Finite ==
    /\ (inv[1].cmd # "none") ~> (inv[1].terminal \in {"completed", "failed"})
    /\ [][inv[1].terminal # "none" =>
            /\ inv[1].stack = << >>
            /\ inv'[1].terminal = inv[1].terminal
            /\ inv'[1].received = inv[1].received
            /\ inv'[1].yielded = inv[1].yielded
            /\ inv'[1].ops = inv[1].ops
            /\ inv'[1].out.kind # "chunk"]_vars

\* TroubleshootCommand has completed after a diagnosis by the provider, and
\* the caller has asked once more.
C12_Witness ==
    /\ inv[1].cmd = "troubleshoot"
    /\ inv[1].terminal = "completed"
    /\ Len(inv[1].received) = 8
    /\ inv[1].received[8] = Chunk("troubleshoot:diagnosis", 0)
    /\ inv[1].requested

(***************************************************************************)
(* Queries of the registry while the environment changes                   *)
(***************************************************************************)

\* The credential variables that change between the queries.
QueryKeys == {"OPENAI_API_KEY", "GEMINI_API_KEY", "APIZH_API_KEY"}

\* The identifiers the single-item lookups are asked about.
QueryIds == Providers \cup {"bogus", "", "constructor"}

QueryTypes == {"ask", "web"}

QueryCurrent == {Omitted, "openai", "gemini"}

\* The record of a query made now, after the query recorded in q.
Asked(q, fn) ==
    [NoQuery EXCEPT !.fn = fn, !.at = env, !.prevAt = q.prevAt, !.prevList = q.prevList]

\* The call also clears the credentials it has read.
QueryAllClearsEnv ==
    /\ query' = [Asked(query, "getAllProviders") EXCEPT
                   !.list = getAllProviders(env),
                   !.prevAt = IF query.fn = "getAllProviders" THEN query.at ELSE @,
                   !.prevList = IF query.fn = "getAllProviders" THEN query.list ELSE @]
    /\ env' = {}
    /\ UNCHANGED <<lastCall, walk, memo, inv, flake>>

QueryAll ==
    /\ query' = [Asked(query, "getAllProviders") EXCEPT
                   !.list = getAllProviders(env),
                   !.prevAt = IF query.fn = "getAllProviders" THEN query.at ELSE @,
                   !.prevList = IF query.fn = "getAllProviders" THEN query.list ELSE @]
    /\ UNCHANGED <<env, lastCall, walk, memo, inv, flake>>

QueryInfo(id) ==
    /\ query' = [Asked(query, "getProviderInfo") EXCEPT
                   !.id = id, !.info = getProviderInfo(id, env)]
    /\ UNCHANGED <<env, lastCall, walk, memo, inv, flake>>

QueryIsAvailable(id) ==
    /\ query' = [Asked(query, "isProviderAvailable") EXCEPT
                   !.id = id, !.flag = isProviderAvailable(id, env)]
    /\ UNCHANGED <<env, lastCall, walk, memo, inv, flake>>

QueryAvailable ==
    /\ query' = [Asked(query, "getAvailableProviders") EXCEPT
                   !.list = getAvailableProviders(env)]
    /\ UNCHANGED <<env, lastCall, walk, memo, inv, flake>>

QueryNext(t, c) ==
    /\ query' = [Asked(query, "getNextAvailableProvider") EXCEPT
                   !.commandType = t, !.currentProvider = c,
                   !.next = getNextAvailableProvider(t, c, env)]
    /\ UNCHANGED <<env, lastCall, walk, memo, inv, flake>>

QueryDefaultModel(id) ==
    /\ query' = [Asked(query, "getDefaultModel") EXCEPT
                   !.id = id, !.model = getDefaultModel(id)]
    /\ UNCHANGED <<env, lastCall, walk, memo, inv, flake>>

InitQuery ==
    /\ env \in SUBSET QueryKeys
    /\ lastCall = NoCall
    /\ walk = WalkIdle
    /\ memo = NoCall
    /\ inv = [i \in Invocations |-> IdleInvocation]
    /\ flake = FALSE
    /\ query = NoQuery

NextQuery ==
    \/ \E k \in QueryKeys : SetEnv(k)
    \/ \E k \in QueryKeys : UnsetEnv(k)
    \/ QueryAll
    \/ \E id \in QueryIds : QueryInfo(id)
    \/ \E id \in QueryIds : QueryIsAvailable(id)
    \/ QueryAvailable
    \/ \E t \in QueryTypes, c \in QueryCurrent : QueryNext(t, c)
    \/ \E id \in QueryIds : QueryDefaultModel(id)

SpecQuery == InitQuery /\ [][NextQuery]_vars

\* The credential variable each provider's availability is read from.
CredentialOf ==
    [p \in Providers |->
        CASE p = "perplexity" -> "PERPLEXITY_API_KEY"
          [] p = "gemini" -> "GEMINI_API_KEY"
          [] p = "openai" -> "OPENAI_API_KEY"
          [] p = "anthropic" -> "ANTHROPIC_API_KEY"
          [] p = "openrouter" -> "OPENROUTER_API_KEY"
          [] p = "modelbox" -> "MODELBOX_API_KEY"
          [] p = "xai" -> "XAI_API_KEY"
          [] OTHER -> "APIZH_API_KEY"]

\* Provider p has its credential in environment e.
HasCredential(p, e) == p \in Providers /\ CredentialOf[p] \in e

\* The providers of a sequence of entries.
ProvidersOf(list) == {list[k].provider : k \in 1..Len(list)}

\* C13: whatever the environment was at earlier queries, each of the five
\* functions answers for the environment of its own call: every entry of
\* getAllProviders is available exactly when its credential is set then,
\* getProviderInfo and isProviderAvailable say the same of their provider,
\* getAvailableProviders lists exactly the providers whose credential is set
\* then, and getNextAvailableProvider returns a provider whose credential is
\* set then, having passed over only providers whose credential is not.
C13_FreshAvailability ==
    /\ query.fn = "getAllProviders" =>
          /\ ProvidersOf(query.list) = Providers
          /\ \A k \in 1..Len(query.list) :
                query.list[k].available = HasCredential(query.list[k].provider, query.at)
    /\ (query.fn = "getProviderInfo" /\ query.id \in Providers) =>
          query.info.available = HasCredential(query.id, query.at)
    /\ query.fn = "isProviderAvailable" => query.flag = HasCredential(query.id, query.at)
    /\ query.fn = "getAvailableProviders" =>
          ProvidersOf(query.list) = {p \in Providers : HasCredential(p, query.at)}
    /\ query.fn = "getNextAvailableProvider" =>
          LET list == PROVIDER_PREFERENCE[query.commandType]
              start == IF query.currentProvider = Omitted THEN 0
                       ELSE IndexOf(PreferenceLookup(query.commandType).items,
                                    query.currentProvider) + 1
              free == {i \in start..(Len(list) - 1) :
                          HasCredential(ItemAt(list, i), query.at)}
          IN IF free = {} THEN query.next.kind = "absent"
             ELSE /\ query.next.kind = "provider"
                  /\ \E i \in free : /\ query.next.value = ItemAt(list, i)
                                     /\ \A j \in free : i <= j

\* A credential was set between two queries and the later one sees it.
C13_Witness ==
    /\ query.fn = "isProviderAvailable"
    /\ query.id = "openai"
    /\ query.flag
    /\ query.prevAt = {}
    /\ query.prevList # << >>
    /\ ~query.prevList[3].available

(***************************************************************************)
(* Two invocations interleaved at their suspension points                  *)
(***************************************************************************)

PairInvocations == {1, 2}

PairCommands == {"nix", "init"}

\* Both run in one working directory, which has no flake.nix at first, and
\* in one environment.
InitPair ==
    /\ env = {"APIZH_API_KEY"}
    /\ lastCall = NoCall
    /\ walk = WalkIdle
    /\ memo = NoCall
    /\ inv = [i \in Invocations |-> IdleInvocation]
    /\ flake = FALSE
    /\ query = NoQuery

\* Each step is the run of one generator from one suspension point to the
\* next, or a move of one of the callers.
NextPair ==
    \E i \in PairInvocations :
        \/ \E cmd \in PairCommands : Invoke(i, cmd, NoOptions)
        \/ CallerNext(i)
        \/ CallerTake(i)
        \/ StepYield(i)
        \/ \E b \in Results : StepAwaitOk(i, b)
        \/ StepAwaitFail(i)
        \/ StepIf(i)
        \/ StepReturn(i)
        \/ StepDelegate(i)
        \/ StepClosed(i)

SpecPair == InitPair /\ [][NextPair]_vars

\* The chunks InitCommand yields when it runs alone in a directory without
\* flake.nix and none of its operations fails, given what it detected.
InitAlone(loc) ==
    IF ~loc.hasNix THEN << Chunk("init:help", 0) >>
    ELSE << Chunk("init:generating", 0), Chunk("init:generated", 0),
            Chunk(IF loc.hasGit THEN "init:steps-git" ELSE "init:steps-nogit", 0),
            Chunk("init:tips", 0) >>

\* C14: an invocation of InitCommand that completes without an error,
\* interleaved with another invocation, delivers the chunks it delivers when
\* it runs alone in the same directory and environment.
C14_SameAsAlone ==
    \A i \in PairInvocations :
        (inv[i].cmd = "init" /\ inv[i].terminal = "completed" /\ inv[i].raised = NoError)
            => inv[i].received = InitAlone(inv[i].loc)

(***************************************************************************)
(* Agreement of the resolver functions                                     *)
(***************************************************************************)

\* The positions of the entries for id in a sequence of entries.
EntriesFor(list, id) == {k \in 1..Len(list) : list[k].provider = id}

\* C15: what isProviderAvailable(id) answered is the available flag of the
\* entry for id in getAllProviders() of the environment of the call, and
\* false when there is no entry.
C15_AgreesWithList ==
    query.fn = "isProviderAvailable" =>
        LET all == getAllProviders(query.at)
            hits == EntriesFor(all, query.id)
        IN IF hits = {} THEN query.flag = FALSE
           ELSE \A k \in hits : query.flag = all[k].available

\* A provider that has an entry and is not available.
C15_Witness ==
    /\ query.fn = "isProviderAvailable"
    /\ query.id = "gemini"
    /\ ~query.flag
    /\ query.at = {"OPENAI_API_KEY", "APIZH_API_KEY"}

AskScenarioCall ==
    /\ lastCall # NoCall
    /\ lastCall.commandType = "ask"
    /\ env = {"OPENAI_API_KEY", "GEMINI_API_KEY"}

\* What the three calls of the scenario return.
AskScenarioResults ==
    /\ lastCall.currentProvider = Omitted =>
          lastCall.result.kind = "provider" /\ lastCall.result.value = "openai"
    /\ lastCall.currentProvider = "openai" =>
          lastCall.result.kind = "provider" /\ lastCall.result.value = "gemini"
    /\ lastCall.currentProvider = "gemini" => lastCall.result.kind = "absent"

\* C17 as stated: the list for "ask" is [apizh-cost, openai, gemini, apizh]
\* and, with only OPENAI_API_KEY and GEMINI_API_KEY set, the calls return
\* openai, then gemini after openai, then absent after gemini.
C17_AskScenarioAsStated ==
    AskScenarioCall =>
        /\ CallList = << "apizh_cost", "openai", "gemini", "apizh" >>
        /\ AskScenarioResults

\* C17 amended: the list for "ask" is [apizh-cost, openai, modelbox,
\* openrouter, gemini, anthropic, perplexity, apizh] and, with only
\* OPENAI_API_KEY and GEMINI_API_KEY set, the calls return openai, then gemini
\* after openai (modelbox and openrouter passed over), then absent after
\* gemini (anthropic, perplexity and apizh passed over).
C17_AskScenario ==
    AskScenarioCall =>
        /\ CallList = << "apizh_cost", "openai", "modelbox", "openrouter",
                         "gemini", "anthropic", "perplexity", "apizh" >>
        /\ AskScenarioResults
        /\ lastCall.currentProvider = Omitted => lastCall.result.notes = << "apizh_cost" >>
        /\ lastCall.currentProvider = "openai" =>
              lastCall.result.notes = << "modelbox", "openrouter" >>
        /\ lastCall.currentProvider = "gemini" =>
              lastCall.result.notes = << "anthropic", "perplexity", "apizh" >>

\* The second call of the scenario has returned gemini.
C17_Witness ==
    /\ AskScenarioCall
    /\ lastCall.currentProvider = "openai"
    /\ lastCall.result.value = "gemini"

(***************************************************************************)
(* Lookups by identifier                                                   *)
(***************************************************************************)

\* C18: getDefaultModel(provider) returns the registered default model when
\* the identifier is a known provider and fails with an UnknownProviderError
\* when it is not.
C18_DefaultModelOrError ==
    query.fn = "getDefaultModel" =>
        IF query.id \in Providers
        THEN query.model = [kind |-> "string", value |-> DEFAULT_MODELS[query.id]]
        ELSE query.model = [kind |-> "throw", value |-> "UnknownProviderError"]

\* C19: for an identifier that is not a known provider getProviderInfo
\* returns absent and isProviderAvailable returns false, whatever
\* credentials are set.
C19_UnknownIsNegative ==
    /\ (query.fn = "getProviderInfo" /\ query.id \notin Providers) => query.info = NoInfo
    /\ (query.fn = "isProviderAvailable" /\ query.id \notin Providers) => query.flag = FALSE

\* An unknown identifier asked about with every credential set.
C19_Witness ==
    /\ query.fn = "isProviderAvailable"
    /\ query.id = "constructor"
    /\ query.at = QueryKeys
    /\ ~query.flag

\* The specialized variants of apizh.
ApizhVariants ==
    {"apizh_coding", "apizh_chinese", "apizh_analysis", "apizh_creative", "apizh_math",
     "apizh_web", "apizh_reasoning", "apizh_cost", "apizh_nix"}

\* C20: in what getAllProviders returns, every known provider has exactly
\* one entry, whose default model is getDefaultModel of that provider, and
\* every specialized variant has the available flag of the base provider
\* apizh.
C20_VariantsShareCredential ==
    query.fn = "getAllProviders" =>
        /\ \A p \in Providers :
              /\ Cardinality(EntriesFor(query.list, p)) = 1
              /\ \A k \in EntriesFor(query.list, p) :
                    /\ getDefaultModel(p).kind = "string"
                    /\ query.list[k].defaultModel = getDefaultModel(p).value
        /\ Len(query.list) = Cardinality(Providers)
        /\ \A v \in ApizhVariants : \A k \in EntriesFor(query.list, v) :
              \A b \in EntriesFor(query.list, "apizh") :
                 query.list[k].available = query.list[b].available

\* APIZH_API_KEY alone is set: the base and every variant are available and
\* nothing else is.
C20_Witness ==
    /\ query.fn = "getAllProviders"
    /\ query.at = {"APIZH_API_KEY"}
    /\ \A k \in 1..Len(query.list) :
          query.list[k].available = (query.list[k].provider \in ApizhVariants \cup {"apizh"})

(***************************************************************************)
(* The preference table and the scan over it                               *)
(***************************************************************************)

\* C21: every preference list has at least one entry, has no provider
\* twice, and names only providers that getAllProviders enumerates, in every
\* state the selector and the environment can reach.
C21_TableIntegrity ==
    \A t \in RegisteredTypes :
        LET list == PROVIDER_PREFERENCE[t] IN
        /\ Len(list) >= 1
        /\ \A i, j \in 1..Len(list) : list[i] = list[j] => i = j
        /\ \A i \in 1..Len(list) : EntriesFor(getAllProviders(env), list[i]) # {}

\* A call has walked a whole list, one note for each of its nine distinct
\* registered entries, and the table is as it was.
C21_Witness ==
    /\ CallRegistered
    /\ lastCall.commandType = "repo"
    /\ lastCall.result.kind = "absent"
    /\ Len(lastCall.result.notes) = 9
    /\ \A k \in 1..9 : EntriesFor(getAllProviders(env), lastCall.result.notes[k]) # {}

\* The index (from 0) at which the scan of the last call started.
CallStart ==
    IF lastCall.currentProvider \in {Omitted, ""} THEN 0
    ELSE IF \E k \in 1..Len(CallList) : CallList[k] = lastCall.currentProvider
    THEN (CHOOSE k \in 1..Len(CallList) : CallList[k] = lastCall.currentProvider)
    ELSE 0

\* The entries of the list at indices (from 0) s .. j-1, in list order.
Slice(list, s, j) == [k \in 1..(j - s) |-> list[s + k]]

\* C22: a call that starts at index s and returns the provider at index j
\* has emitted j - s notes, naming the candidates at s..j-1 in list order,
\* all of them unavailable, and none for the provider returned; a call that
\* returns absent has emitted a note for every candidate from s to the end.
C22_OneNotePerSkipped ==
    CallRegistered =>
        /\ lastCall.result.kind \in {"provider", "absent"}
        /\ lastCall.result.kind = "provider" =>
              \E j \in CallStart..(Len(CallList) - 1) :
                 /\ ItemAt(CallList, j) = lastCall.result.value
                 /\ Len(lastCall.result.notes) = j - CallStart
                 /\ lastCall.result.notes = Slice(CallList, CallStart, j)
                 /\ \A k \in 1..Len(lastCall.result.notes) :
                       /\ ~HasCredential(lastCall.result.notes[k], env)
                       /\ lastCall.result.notes[k] # lastCall.result.value
        /\ lastCall.result.kind = "absent" =>
              lastCall.result.notes = Slice(CallList, CallStart, Len(CallList))

\* A call after a listed provider that passed over three candidates.
C22_Witness ==
    /\ CallRegistered
    /\ CallStart >= 2
    /\ lastCall.result.kind = "provider"
    /\ Len(lastCall.result.notes) = 3

\* C27: for a registered command type, a call that names a provider as
\* currentProvider does not return that provider, whether it is in the list
\* or not and whether it is available or not.
C27_NeverReturnsCurrent ==
    (CallRegistered /\ lastCall.currentProvider \in Providers
       /\ lastCall.result.kind = "provider")
    => lastCall.result.value # lastCall.currentProvider

\* The provider named is available and listed, and a later one is returned.
C27_Witness ==
    /\ CallRegistered
    /\ lastCall.currentProvider \in Providers
    /\ HasCredential(lastCall.currentProvider, env)
    /\ \E k \in 1..Len(CallList) : CallList[k] = lastCall.currentProvider
    /\ lastCall.result.kind = "provider"
    /\ lastCall.result.value # lastCall.currentProvider

(***************************************************************************)
(* AskCommand: the provider and the model of an invocation                 *)
(***************************************************************************)

\* Some provider has its credential in the environment.
SomeAvailable(e) == \E p \in Providers : HasCredential(p, e)

\* No provider is usable for the invocation: none is available, or the one
\* asked for is unknown or not available.
NoneUsable(o, e) ==
    \/ ~SomeAvailable(e)
    \/ ProviderName(o) \notin Providers
    \/ ~HasCredential(ProviderName(o), e)

\* C23: when no provider is usable, an invocation of AskCommand starts no
\* operation, yields and delivers no chunk and never completes (the caller
\* is told "done" only when it asks again after the failure); whatever
\* leaves it is a ProviderError raised by one of the three checks; and once
\* the caller has asked for the first chunk the invocation does fail.
C23_ExhaustionFails ==
    /\ [](\A i \in StreamInvocations :
            (inv[i].cmd = "ask" /\ NoneUsable(inv[i].opts, env)) =>
               /\ inv[i].ops = << >>
               /\ inv[i].yielded = << >>
               /\ inv[i].received = << >>
               /\ inv[i].out.kind # "chunk"
               /\ inv[i].out.kind = "done" => inv[i].terminal = "failed"
               /\ inv[i].terminal # "completed"
               /\ Failing(inv[i]) =>
                     /\ inv[i].raised.type = "ProviderError"
                     /\ inv[i].raised.cause \in {"noProviders", "invalidProvider", "providerNotAvailable"}
                     /\ inv[i].out.kind = "error" => inv[i].out.error = inv[i].raised
                     /\ inv[i].terminal = "failed" => inv[i].error = inv[i].raised)
    /\ \A i \in StreamInvocations :
          (inv[i].cmd = "ask" /\ NoneUsable(inv[i].opts, env) /\ inv[i].requested)
             ~> (inv[i].cmd = "ask" /\ inv[i].terminal = "failed")

\* The provider the configuration names has no credential while another
\* provider has one, and the caller saw the ProviderError and no chunk.
C23_Witness ==
    /\ inv[1].cmd = "ask"
    /\ SomeAvailable(env)
    /\ NoneUsable(inv[1].opts, env)
    /\ inv[1].terminal = "failed"
    /\ inv[1].error.type = "ProviderError"
    /\ inv[1].error.cause = "providerNotAvailable"
    /\ inv[1].received = << >>
    /\ inv[1].ops = << >>

\* C24: every ProviderError that AskCommand raises while it resolves the
\* provider has in its message a list from which the state of each provider
\* considered can be read: the providers of getAllProviders that are listed
\* are the available ones.
C24_MessageListsProviders ==
    \A i \in StreamInvocations :
        (inv[i].cmd = "ask" /\ inv[i].raised.type = "ProviderError"
           /\ inv[i].raised.cause \in {"noProviders", "invalidProvider", "providerNotAvailable"}) =>
              /\ inv[i].raised.message.lists
              /\ \A k \in 1..Len(getAllProviders(env)) :
                    getAllProviders(env)[k].available <=>
                       \E n \in 1..Len(inv[i].raised.message.listed) :
                          inv[i].raised.message.listed[n] = getAllProviders(env)[k].provider

\* C25: when at least one provider is available and neither the options nor
\* the configuration name a provider, AskCommand does not raise the error
\* that the requested provider is not available.
C25_DefaultsToAvailable ==
    \A i \in StreamInvocations :
        (inv[i].cmd = "ask" /\ SomeAvailable(env)
           /\ ~Truthy(inv[i].opts.provider) /\ ~Truthy(inv[i].opts.configProvider))
        => inv[i].raised.cause # "providerNotAvailable"

\* C26: the model given to provider.executePrompt is options.model when
\* there is one, and otherwise, for every provider but base apizh, the
\* default model the registry has for the chosen provider.
C26_ModelIsRegistryDefault ==
    \A i \in StreamInvocations :
        \A j \in Started(inv[i], "executePrompt") :
            inv[i].cmd = "ask" =>
               /\ inv[i].opts.model => inv[i].ops[j].model = "<options.model>"
               /\ (~inv[i].opts.model /\ ProviderName(inv[i].opts) # "apizh") =>
                     /\ getDefaultModel(ProviderName(inv[i].opts)).kind = "string"
                     /\ inv[i].ops[j].model = getDefaultModel(ProviderName(inv[i].opts)).value

(***************************************************************************)
(* The nix sub-commands report their errors as chunks                      *)
(***************************************************************************)

\* The chunk of the outer catch clause of each sub-command.
ErrorChunk ==
    [ analyze |-> Chunk("analyze:error", 0), build |-> Chunk("build:error", 0),
      check |-> Chunk("check:error", 0), develop |-> Chunk("develop:error", 0),
      explain |-> Chunk("explain:error", 0), fix |-> Chunk("fix:error", 0),
      fmt |-> Chunk("fmt:error", 0), git |-> Chunk("git:error", 0),
      init |-> Chunk("init:error", 0), run |-> Chunk("run:error", 0),
      suggest |-> Chunk("suggest:error", 0), update |-> Chunk("update:error", 0),
      assist |-> Chunk("assist:error", 0),
      troubleshoot |-> Chunk("troubleshoot:error", 0) ]

\* The errors a sub-command catches around the operation itself and goes on
\* after: the read of flake.nix in AssistCommand, FixCommand and
\* TroubleshootCommand, the directory listing of AssistCommand, the flake
\* check of FixCommand.
InnerCaught(cmd, op) ==
    \/ cmd = "assist" /\ op \in {"readFlakeFile", "execAsync"}
    \/ cmd = "troubleshoot" /\ op = "readFlakeFile"
    \/ cmd = "fix" /\ op \in {"readFlakeFile", "executeNixCommand"}

\* The chunks yielded when the operation started last was started (k), then
\* the error chunk, are what the invocation ended with.
EndsWithErrorChunk(r) ==
    /\ Len(r.yielded) = r.ops[Len(r.ops)].after + 1
    /\ r.yielded[Len(r.yielded)] = ErrorChunk[r.cmd]
    /\ \A k \in 1..r.ops[Len(r.ops)].after : r.yielded[k] # ErrorChunk[r.cmd]
    /\ r.terminal = "completed" => r.received = r.yielded

\* C28 as stated: no sub-command fails, every error raised after k chunks
\* leaves exactly k + 1 chunks of which the last is the error chunk, and
\* NixCommand never rethrows.
C28_EveryErrorIsLastChunk ==
    \A i \in StreamInvocations :
        LET r == inv[i] IN
        /\ r.cmd \in NixSubCommands =>
              /\ ~Failing(r)
              /\ (r.raised # NoError /\ r.stack = << >>) => EndsWithErrorChunk(r)
        /\ (r.cmd = "nix" /\ r.stack # << >>) => r.stack[1].pc # "L25"

\* C28: no sub-command fails; an error that the sub-command does not catch
\* around the operation itself, raised after k chunks, leaves exactly k + 1
\* chunks of which the last is the error chunk, and the invocation
\* completes; an error caught around the operation is absorbed, the body
\* goes on and its last chunk is not the error chunk; NixCommand never
\* rethrows.
C28_NeverFails ==
    \A i \in StreamInvocations :
        LET r == inv[i] IN
        /\ r.cmd \in NixSubCommands =>
              /\ ~Failing(r)
              /\ r.terminal \in {"none", "completed"}
              /\ (r.raised # NoError /\ r.stack = << >>
                    /\ ~InnerCaught(r.cmd, r.raised.cause)) => EndsWithErrorChunk(r)
              /\ (r.raised # NoError /\ r.stack = << >>
                    /\ InnerCaught(r.cmd, r.raised.cause)) =>
                       /\ Len(r.yielded) > r.ops[Len(r.ops)].after
                       /\ r.yielded[Len(r.yielded)] # ErrorChunk[r.cmd]
        /\ (r.cmd = "nix" /\ r.stack # << >>) => r.stack[1].pc # "L25"

\* The provider call of AssistCommand failed after three chunks; the caller
\* received them, then the error chunk, and saw the invocation complete.
C28_Witness ==
    /\ inv[1].cmd = "assist"
    /\ inv[1].raised = OpError("executePrompt")
    /\ inv[1].terminal = "completed"
    /\ inv[1].received = << Chunk("assist:starting", 0), Chunk("assist:environment", 0),
                            Chunk("assist:model", 0), Chunk("assist:error", 0) >>

(***************************************************************************)
(* InitCommand and the flake.nix of the working directory                  *)
(***************************************************************************)

\* What an invocation of InitCommand does with flake.nix, as far as the
\* invocation itself can tell: it starts writeFlakeFile at most once, right
\* after executePrompt has returned, and only if detectEnvironment reported
\* Nix and no flake.nix; otherwise it starts no write.
WritesOnlyAfterReply(r) ==
    /\ Cardinality(Started(r, "writeFlakeFile")) <= 1
    /\ \A j \in Started(r, "writeFlakeFile") :
          /\ r.loc.hasNix /\ ~r.loc.hasFlake
          /\ j >= 2 /\ r.ops[j - 1].name = "executePrompt"
          /\ r.raised # NoError => r.raised.cause = "writeFlakeFile"
    /\ (Started(r, "detectEnvironment") # {} /\ (~r.loc.hasNix \/ r.loc.hasFlake)) =>
          Started(r, "writeFlakeFile") = {}
    /\ r.raised.cause \in {"createProvider", "executePrompt"} =>
          Started(r, "writeFlakeFile") = {}

\* C29: an invocation of InitCommand starts writeFlakeFile at most once,
\* only after detection reported Nix and no flake.nix and after the provider
\* call returned; it starts no write when Nix is missing, flake.nix exists or
\* the provider fails; and no write is started while a flake.nix exists, so
\* that no existing flake.nix is overwritten.
C29_NoOverwrite ==
    \A i \in PairInvocations :
        inv[i].cmd = "init" =>
           /\ WritesOnlyAfterReply(inv[i])
           /\ \A j \in Started(inv[i], "writeFlakeFile") : ~inv[i].ops[j].replaces

(***************************************************************************)
(* InstallCommand in non-interactive mode                                  *)
(***************************************************************************)

\* C30: an invocation of InstallCommand in non-interactive mode (without
\* --json) starts no prompt and no write of an env file and does not fail,
\* whatever the existing configuration, SKIP_SETUP and the API keys in the
\* environment are.
C30_NonInteractiveNeverPrompts ==
    \A i \in StreamInvocations :
        (inv[i].cmd = "install" /\ inv[i].opts.nonInteractive /\ ~inv[i].opts.json) =>
           /\ \A j \in 1..Len(inv[i].ops) : inv[i].ops[j].name \notin
                    {"consolaPrompt", "interactivePrompts",
                     "writeKeysToFileHome", "writeKeysToFileLocal"}
           /\ ~Failing(inv[i])

====
